---- MODULE Spec2Model ----
(***************************************************************************)
(* A model of the URL organizer's core: URL parsing and canonicalization   *)
(* (src/core/url_parser.py), canonical deduplication                        *)
(* (src/organizers/method_16_canonical_deduplication.py) and the link graph *)
(* with its page-type classification (src/analyzers/link_graph_analyzer.py).*)
(*                                                                         *)
(* A string is a sequence of one-character strings, so that parsing,       *)
(* serialization, percent-decoding and case folding are computed character *)
(* by character, as the code and urllib.parse compute them.                *)
(***************************************************************************)
EXTENDS Integers, Sequences, FiniteSets, TLC

(***************************************************************************)
(* Characters and strings                                                  *)
(***************************************************************************)

\* The printable ASCII characters; Ascii[i] has code point i + 31 (the grave
\* accent, code 96, is written "grave").
Ascii ==
    <<" ", "!", "\"", "#", "$", "%", "&", "'", "(", ")", "*", "+", ",", "-", ".", "/", "0", "1", "2", "3", "4", "5", "6", "7", "8", "9", ":", ";", "<", "=", ">", "?", "@", "A", "B", "C", "D", "E", "F", "G", "H", "I", "J", "K", "L", "M", "N", "O", "P", "Q", "R", "S", "T", "U", "V", "W", "X", "Y", "Z", "[", "\\", "]", "^", "_", "grave", "a", "b", "c", "d", "e", "f", "g", "h", "i", "j", "k", "l", "m", "n", "o", "p", "q", "r", "s", "t", "u", "v", "w", "x", "y", "z", "{", "|", "}", "~">>

Ord(c) == 31 + (CHOOSE i \in 1..Len(Ascii) : Ascii[i] = c)

Chr(n) == Ascii[n - 31]

IsDigit(c) == Ord(c) >= 48 /\ Ord(c) <= 57

IsUpper(c) == Ord(c) >= 65 /\ Ord(c) <= 90

IsAlpha(c) == IsUpper(c) \/ (Ord(c) >= 97 /\ Ord(c) <= 122)

\* str.lower() on one character
LowerChar(c) == IF IsUpper(c) THEN Chr(Ord(c) + 32) ELSE c

\* str.lower()
Lower(s) == [i \in 1..Len(s) |-> LowerChar(s[i])]

\* c in s
HasChar(s, c) == \E i \in 1..Len(s) : s[i] = c

\* s.find(c, start) with 1-based positions; 0 when c does not occur at or after start
Find(s, c, start) ==
    IF \E i \in start..Len(s) : s[i] = c
    THEN CHOOSE i \in start..Len(s) : s[i] = c /\ \A j \in start..(i - 1) : s[j] # c
    ELSE 0

\* s.rfind(c); 0 when c does not occur
RFind(s, c) ==
    IF HasChar(s, c)
    THEN CHOOSE i \in 1..Len(s) : s[i] = c /\ \A j \in (i + 1)..Len(s) : s[j] # c
    ELSE 0

\* s[:n] and s[n:] with n a count of characters
Take(s, n) == SubSeq(s, 1, IF n < Len(s) THEN n ELSE Len(s))

Drop(s, n) == SubSeq(s, n + 1, Len(s))

\* s.startswith(p)
StartsWith(s, p) == Len(s) >= Len(p) /\ Take(s, Len(p)) = p

\* lexicographic order of strings by code point, as Python compares str
RECURSIVE StrLess(_, _)
StrLess(a, b) ==
    IF b = <<>> THEN FALSE
    ELSE IF a = <<>> THEN TRUE
    ELSE IF a[1] # b[1] THEN Ord(a[1]) < Ord(b[1])
    ELSE StrLess(Tail(a), Tail(b))

\* s.split(sep) on a one-character separator
RECURSIVE Split(_, _)
Split(s, sep) ==
    IF Find(s, sep, 1) = 0 THEN <<s>>
    ELSE <<Take(s, Find(s, sep, 1) - 1)>> \o Split(Drop(s, Find(s, sep, 1)), sep)

\* s.rstrip(c)
RECURSIVE RStrip(_, _)
RStrip(s, c) ==
    IF s # <<>> /\ s[Len(s)] = c THEN RStrip(Take(s, Len(s) - 1), c) ELSE s

\* s.lstrip(c)
RECURSIVE LStrip(_, _)
LStrip(s, c) ==
    IF s # <<>> /\ s[1] = c THEN LStrip(Tail(s), c) ELSE s

\* s.replace(a, b) for one-character a and b
Replace(s, a, b) == [i \in 1..Len(s) |-> IF s[i] = a THEN b ELSE s[i]]

\* sep.join(parts)
RECURSIVE Join(_, _)
Join(parts, sep) ==
    IF parts = <<>> THEN <<>>
    ELSE IF Len(parts) = 1 THEN parts[1]
    ELSE parts[1] \o sep \o Join(Tail(parts), sep)

\* str(n) for a non-negative integer
RECURSIVE IntToStr(_)
IntToStr(n) ==
    IF n < 10 THEN <<Chr(48 + n)>>
    ELSE IntToStr(n \div 10) \o <<Chr(48 + (n % 10))>>

\* int(s) for a string of decimal digits
RECURSIVE StrToInt(_)
StrToInt(s) ==
    IF s = <<>> THEN 0
    ELSE 10 * StrToInt(Take(s, Len(s) - 1)) + (Ord(s[Len(s)]) - 48)

(***************************************************************************)
(* urllib.parse, as url_parser.py uses it                                  *)
(***************************************************************************)

HexDigits == <<"0", "1", "2", "3", "4", "5", "6", "7", "8", "9", "A", "B", "C", "D", "E", "F">>

IsHex(c) == IsDigit(c) \/ (Ord(LowerChar(c)) >= 97 /\ Ord(LowerChar(c)) <= 102)

HexVal(c) == IF IsDigit(c) THEN Ord(c) - 48 ELSE Ord(LowerChar(c)) - 87

\* urllib.parse.unquote: every %XX with two hex digits becomes the character
\* with that code. Strings here are printable ASCII; an escape of any
\* other byte is outside the alphabet and is left as written.
IsEscape(s) ==
    /\ Len(s) >= 3
    /\ s[1] = "%"
    /\ IsHex(s[2])
    /\ IsHex(s[3])
    /\ 16 * HexVal(s[2]) + HexVal(s[3]) \in 32..126

RECURSIVE unquote(_)
unquote(s) ==
    IF s = <<>> THEN <<>>
    ELSE IF IsEscape(s)
         THEN <<Chr(16 * HexVal(s[2]) + HexVal(s[3]))>> \o unquote(Drop(s, 3))
         ELSE <<s[1]>> \o unquote(Tail(s))

\* characters quote_plus never escapes: letters, digits and "_.-~"
IsUnreserved(c) == IsAlpha(c) \/ IsDigit(c) \/ c \in {"_", ".", "-", "~"}

\* urllib.parse.quote_plus: a space becomes "+", every other reserved
\* character becomes %XX in upper-case hex
quote_plus_char(c) ==
    IF c = " " THEN <<"+">>
    ELSE IF IsUnreserved(c) THEN <<c>>
    ELSE <<"%", HexDigits[(Ord(c) \div 16) + 1], HexDigits[(Ord(c) % 16) + 1]>>

RECURSIVE quote_plus(_)
quote_plus(s) ==
    IF s = <<>> THEN <<>>
    ELSE quote_plus_char(s[1]) \o quote_plus(Tail(s))

\* urllib.parse.scheme_chars
IsSchemeChar(c) == IsAlpha(c) \/ IsDigit(c) \/ c \in {"+", "-", "."}

\* urllib.parse.uses_netloc
uses_netloc ==
    { <<>>,
      <<"f", "t", "p">>,
      <<"h", "t", "t", "p">>,
      <<"g", "o", "p", "h", "e", "r">>,
      <<"n", "n", "t", "p">>,
      <<"t", "e", "l", "n", "e", "t">>,
      <<"i", "m", "a", "p">>,
      <<"w", "a", "i", "s">>,
      <<"f", "i", "l", "e">>,
      <<"m", "m", "s">>,
      <<"h", "t", "t", "p", "s">>,
      <<"s", "h", "t", "t", "p">>,
      <<"s", "n", "e", "w", "s">>,
      <<"p", "r", "o", "s", "p", "e", "r", "o">>,
      <<"r", "t", "s", "p">>,
      <<"r", "t", "s", "p", "s">>,
      <<"r", "t", "s", "p", "u">>,
      <<"r", "s", "y", "n", "c">>,
      <<"s", "v", "n">>,
      <<"s", "v", "n", "+", "s", "s", "h">>,
      <<"s", "f", "t", "p">>,
      <<"n", "f", "s">>,
      <<"g", "i", "t">>,
      <<"g", "i", "t", "+", "s", "s", "h">>,
      <<"w", "s">>,
      <<"w", "s", "s">> }

\* urllib.parse.uses_params
uses_params ==
    { <<>>,
      <<"f", "t", "p">>,
      <<"h", "d", "l">>,
      <<"p", "r", "o", "s", "p", "e", "r", "o">>,
      <<"h", "t", "t", "p">>,
      <<"i", "m", "a", "p">>,
      <<"h", "t", "t", "p", "s">>,
      <<"s", "h", "t", "t", "p">>,
      <<"r", "t", "s", "p">>,
      <<"r", "t", "s", "p", "s">>,
      <<"r", "t", "s", "p", "u">>,
      <<"s", "i", "p">>,
      <<"s", "i", "p", "s">>,
      <<"m", "m", "s">>,
      <<"s", "f", "t", "p">>,
      <<"t", "e", "l">> }

\* s.partition(c)[0]: the part of s before the first c, or all of s
Before(s, c) == IF Find(s, c, 1) = 0 THEN s ELSE Take(s, Find(s, c, 1) - 1)

\* s.partition(c)[2]: the part of s after the first c, or nothing
After(s, c) == IF Find(s, c, 1) = 0 THEN <<>> ELSE Drop(s, Find(s, c, 1))

\* port = None
NoPort == -1

\* urllib.parse._splitnetloc(url, 2): the authority ends at the first of "/?#"
splitnetloc_end(url) ==
    LET ds == {i \in 3..Len(url) : url[i] \in {"/", "?", "#"}}
    IN  IF ds = {} THEN Len(url) + 1
        ELSE CHOOSE i \in ds : \A j \in ds : i <= j

\* the text between "[" and "]" of an authority
bracketed_host(netloc) == Before(After(netloc, "["), "]")

\* urllib.parse._check_bracketed_host: the bracketed text must be an IP
\* literal; here, a non-empty string of hex digits, ":" and "."
check_bracketed_host_raises(h) ==
    h = <<>> \/ \E i \in 1..Len(h) : ~(IsHex(h[i]) \/ h[i] \in {":", "."})

\* urllib.parse.urlsplit, the part before the ValueError checks: the scheme
\* and the rest of the url
split_scheme_at(url, i) ==
    IF /\ i > 1
       /\ IsAlpha(url[1])
       /\ \A j \in 1..(i - 1) : IsSchemeChar(url[j])
    THEN [scheme |-> Lower(Take(url, i - 1)), rest |-> Drop(url, i)]
    ELSE [scheme |-> <<>>, rest |-> url]

split_scheme(url0) == split_scheme_at(LStrip(url0, " "), Find(LStrip(url0, " "), ":", 1))

\* the authority of a url that starts with "//"
netloc_of(rest) == SubSeq(rest, 3, splitnetloc_end(rest) - 1)

\* an authority with an unmatched or ill-formed bracketed part
brackets_invalid(netloc) ==
    \/ HasChar(netloc, "[") /\ ~HasChar(netloc, "]")
    \/ HasChar(netloc, "]") /\ ~HasChar(netloc, "[")
    \/ /\ HasChar(netloc, "[")
       /\ HasChar(netloc, "]")
       /\ check_bracketed_host_raises(bracketed_host(netloc))

\* urllib.parse.urlsplit raises ValueError("Invalid IPv6 URL") on such an authority
urlsplit_raises(url0) ==
    /\ StartsWith(split_scheme(url0).rest, <<"/", "/">>)
    /\ brackets_invalid(netloc_of(split_scheme(url0).rest))

\* urllib.parse.urlsplit, after the authority: the fragment is cut at the
\* first "#", then the query at the first "?"
split_fragment(scheme, netloc, url1) ==
    [scheme |-> scheme, netloc |-> netloc, path |-> Before(Before(url1, "#"), "?"),
     query |-> After(Before(url1, "#"), "?"), fragment |-> After(url1, "#")]

\* urllib.parse.urlsplit, after the scheme: the authority follows a "//"
split_netloc(s) ==
    IF StartsWith(s.rest, <<"/", "/">>)
    THEN split_fragment(s.scheme, netloc_of(s.rest), Drop(s.rest, splitnetloc_end(s.rest) - 1))
    ELSE split_fragment(s.scheme, <<>>, s.rest)

\* urllib.parse.urlsplit: (scheme, netloc, path, query, fragment)
urlsplit(url0) == split_netloc(split_scheme(url0))

\* urllib.parse._splitparams: the position of the ";" that starts the
\* parameters of the last path segment; 0 when there is none
splitparams_at(url) ==
    IF HasChar(url, "/") THEN Find(url, ";", RFind(url, "/")) ELSE Find(url, ";", 1)

\* urllib.parse.urlparse, after urlsplit: the parameters of the last path
\* segment are cut off the path, for the schemes that have them
split_params(r) ==
    IF r.scheme \in uses_params /\ splitparams_at(r.path) # 0
    THEN [scheme |-> r.scheme, netloc |-> r.netloc,
          path |-> Take(r.path, splitparams_at(r.path) - 1),
          params |-> Drop(r.path, splitparams_at(r.path)),
          query |-> r.query, fragment |-> r.fragment]
    ELSE [scheme |-> r.scheme, netloc |-> r.netloc, path |-> r.path, params |-> <<>>,
          query |-> r.query, fragment |-> r.fragment]

\* urllib.parse.urlparse
urlparse(url0) == split_params(urlsplit(url0))

\* urllib.parse _hostinfo of a bracketed host: the text up to "]", and the
\* port after the ":" that follows
hostinfo_bracketed(br) ==
    [hostname |-> Before(br, "]"), port |-> After(After(br, "]"), ":")]

\* urllib.parse _hostinfo, after the user information
hostinfo_plain(hi) ==
    IF HasChar(hi, "[")
    THEN hostinfo_bracketed(After(hi, "["))
    ELSE [hostname |-> Before(hi, ":"), port |-> After(hi, ":")]

\* urllib.parse _hostinfo: (hostname, port) as written in the authority
hostinfo(netloc) == hostinfo_plain(Drop(netloc, RFind(netloc, "@")))

\* parsed.hostname or '': the hostname as written, lower-cased up to a "%"
\* zone separator
hostname_of(netloc) ==
    Lower(Before(hostinfo(netloc).hostname, "%"))
    \o Drop(hostinfo(netloc).hostname, Len(Before(hostinfo(netloc).hostname, "%")))

\* the port property raises ValueError on a port that is not all digits or
\* is above 65535
port_raises(netloc) ==
    /\ hostinfo(netloc).port # <<>>
    /\ \/ \E i \in 1..Len(hostinfo(netloc).port) : ~IsDigit(hostinfo(netloc).port[i])
       \/ StrToInt(hostinfo(netloc).port) > 65535

\* the port property: an integer, or None
port_of(netloc) ==
    IF hostinfo(netloc).port = <<>> THEN NoPort ELSE StrToInt(hostinfo(netloc).port)

\* one field of a query string as (name, value), percent- and plus-decoded
qs_pair(nv) ==
    [k |-> unquote(Replace(Before(nv, "="), "+", " ")),
     v |-> unquote(Replace(After(nv, "="), "+", " "))]

\* dict[k].append(v), or dict[k] = [v] for a new key; a dict is the sequence
\* of its items [k, v] in insertion order, v being the list of values
dict_append(d, k, v) ==
    IF \E i \in 1..Len(d) : d[i].k = k
    THEN [i \in 1..Len(d) |-> IF d[i].k = k THEN [k |-> k, v |-> Append(d[i].v, v)] ELSE d[i]]
    ELSE Append(d, [k |-> k, v |-> <<v>>])

RECURSIVE qs_fold(_, _)
qs_fold(fields, d) ==
    IF fields = <<>> THEN d
    ELSE IF fields[1] = <<>> THEN qs_fold(Tail(fields), d)
    ELSE qs_fold(Tail(fields), dict_append(d, qs_pair(fields[1]).k, qs_pair(fields[1]).v))

\* urllib.parse.parse_qs(query, keep_blank_values=True)
parse_qs(qs) ==
    IF qs = <<>> THEN <<>> ELSE qs_fold(Split(qs, "&"), <<>>)

RECURSIVE urlencode_values(_, _)
urlencode_values(k, vs) ==
    IF vs = <<>> THEN <<>>
    ELSE <<quote_plus(k) \o <<"=">> \o quote_plus(vs[1])>> \o urlencode_values(k, Tail(vs))

RECURSIVE urlencode_items(_)
urlencode_items(d) ==
    IF d = <<>> THEN <<>>
    ELSE urlencode_values(d[1].k, d[1].v) \o urlencode_items(Tail(d))

\* urllib.parse.urlencode(query_dict, doseq=True)
urlencode(d) == Join(urlencode_items(d), <<"&">>)

\* urllib.parse.urlunsplit: "//" and the authority are written for a
\* non-empty authority and for the schemes that use one
with_netloc(scheme, netloc, url) ==
    IF netloc # <<>> \/ (scheme # <<>> /\ scheme \in uses_netloc /\ Take(url, 2) # <<"/", "/">>)
    THEN <<"/", "/">> \o netloc \o (IF url # <<>> /\ url[1] # "/" THEN <<"/">> ELSE <<>>) \o url
    ELSE url

\* urllib.parse.urlunparse((scheme, netloc, path, params, query, fragment))
urlunparse(scheme, netloc, path, params, query, fragment) ==
    (IF scheme # <<>> THEN scheme \o <<":">> ELSE <<>>)
    \o with_netloc(scheme, netloc, IF params # <<>> THEN path \o <<";">> \o params ELSE path)
    \o (IF query # <<>> THEN <<"?">> \o query ELSE <<>>)
    \o (IF fragment # <<>> THEN <<"#">> \o fragment ELSE <<>>)

(***************************************************************************)
(* src/core/url_parser.py                                                  *)
(***************************************************************************)

\* ParsedURL.__str__: the query is rebuilt from query_dict unless it is
\* empty, and then the stored query string is used
ParsedURL_str(p) ==
    urlunparse(p.scheme, p.netloc, p.path, p.params,
               IF p.query_dict # <<>> THEN urlencode(p.query_dict) ELSE p.query,
               p.fragment)

\* URLParser.parse raises what urlparse and the port property raise
parse_raises(url) ==
    urlsplit_raises(url) \/ port_raises(urlsplit(url).netloc)

\* the ParsedURL that URLParser.parse builds from the result of urlparse
ParsedURL(parsed, url) ==
    [scheme     |-> parsed.scheme,
     netloc     |-> parsed.netloc,
     hostname   |-> hostname_of(parsed.netloc),
     port       |-> port_of(parsed.netloc),
     path       |-> parsed.path,
     params     |-> parsed.params,
     query      |-> parsed.query,
     query_dict |-> parse_qs(parsed.query),
     fragment   |-> parsed.fragment,
     original   |-> url]

\* URLParser.parse, when it returns
parse(url) == ParsedURL(urlparse(url), url)

\* URLParser.remove_tracker_params
remove_tracker_params(parsed_url, tracker_params) ==
    [parsed_url EXCEPT !.query_dict =
        SelectSeq(parsed_url.query_dict, LAMBDA it : it.k \notin tracker_params)]

\* sorted(query_dict.items()): insertion of one item into a sorted dict
RECURSIVE sorted_insert(_, _)
sorted_insert(d, it) ==
    IF d = <<>> THEN <<it>>
    ELSE IF StrLess(it.k, d[1].k) THEN <<it>> \o d
    ELSE <<d[1]>> \o sorted_insert(Tail(d), it)

\* dict(sorted(query_dict.items()))
RECURSIVE sorted_items(_)
sorted_items(d) ==
    IF d = <<>> THEN <<>>
    ELSE sorted_insert(sorted_items(Take(d, Len(d) - 1)), d[Len(d)])

\* the keyword arguments of URLParser.normalize and their defaults
NormalizeOptions ==
    [lowercase_hostname : BOOLEAN, remove_www : BOOLEAN, remove_trailing_slash : BOOLEAN,
     sort_query_params : BOOLEAN, remove_default_ports : BOOLEAN, remove_fragments : BOOLEAN,
     decode_percent_encoding : BOOLEAN]

DefaultOptions ==
    [lowercase_hostname |-> TRUE, remove_www |-> TRUE, remove_trailing_slash |-> TRUE,
     sort_query_params |-> TRUE, remove_default_ports |-> TRUE, remove_fragments |-> TRUE,
     decode_percent_encoding |-> TRUE]

\* URLParser.normalize, the hostname lower-cased
normalize_case(hostname, opt) == IF opt.lowercase_hostname THEN Lower(hostname) ELSE hostname

\* URLParser.normalize, the hostname: lower-cased, then without a "www." prefix
normalize_hostname(hostname, opt) ==
    IF opt.remove_www /\ StartsWith(normalize_case(hostname, opt), <<"w", "w", "w", ".">>)
    THEN Drop(normalize_case(hostname, opt), 4)
    ELSE normalize_case(hostname, opt)

\* URLParser.normalize with no port dropped
normalize_port_kept(scheme, port, opt) == port

\* URLParser.normalize, the port: 80 is dropped for http, 443 for https
normalize_port(scheme, port, opt) ==
    IF /\ opt.remove_default_ports
       /\ \/ scheme = <<"h", "t", "t", "p">> /\ port = 80
          \/ scheme = <<"h", "t", "t", "p", "s">> /\ port = 443
    THEN NoPort ELSE port

\* URLParser.normalize, the authority rebuilt: "hostname:port" for a truthy
\* port (None and 0 are not), else the hostname
normalize_netloc(hostname, port) ==
    IF port # NoPort /\ port # 0 THEN hostname \o <<":">> \o IntToStr(port) ELSE hostname

\* URLParser.normalize, the path: path.rstrip('/') when it is longer than one
\* character and ends in "/", then percent-decoded
normalize_slash(path, opt) ==
    IF opt.remove_trailing_slash /\ Len(path) > 1 /\ path[Len(path)] = "/"
    THEN RStrip(path, "/") ELSE path

normalize_path(path, opt) ==
    IF opt.decode_percent_encoding THEN unquote(normalize_slash(path, opt)) ELSE normalize_slash(path, opt)

\* URLParser.normalize with the query parameters left in their order
normalize_query_unsorted(query_dict, opt) == query_dict

\* URLParser.normalize, the query parameters sorted by key
normalize_query(query_dict, opt) ==
    IF opt.sort_query_params /\ query_dict # <<>> THEN sorted_items(query_dict) ELSE query_dict

\* URLParser.normalize
normalize(parsed_url, opt) ==
    [parsed_url EXCEPT
        !.hostname   = normalize_hostname(parsed_url.hostname, opt),
        !.port       = normalize_port(parsed_url.scheme, parsed_url.port, opt),
        !.netloc     = normalize_netloc(normalize_hostname(parsed_url.hostname, opt),
                                        normalize_port(parsed_url.scheme, parsed_url.port, opt)),
        !.path       = normalize_path(parsed_url.path, opt),
        !.query_dict = normalize_query(parsed_url.query_dict, opt),
        !.fragment   = IF opt.remove_fragments THEN <<>> ELSE @]

\* URLParser.clean(url, normalize=True, remove_trackers=True), when parse returns
clean(url, tracker_params) ==
    ParsedURL_str(normalize(remove_tracker_params(parse(url), tracker_params), DefaultOptions))

\* URLParser.get_canonical_url raises when parse raises
get_canonical_url_raises(url) == parse_raises(url)

\* URLParser.get_canonical_url, when it returns
get_canonical_url(url, tracker_params) == clean(url, tracker_params)

\* get_domain_parts with the rule for two labels applied to three and more
split_domain_two(hostname_parts) ==
    IF Len(hostname_parts) >= 2
    THEN <<(<<>>), hostname_parts[1], hostname_parts[2]>>
    ELSE <<(<<>>), hostname_parts[1], (<<>>)>>

\* URLParser.get_domain_parts, the if chain on the labels of the hostname:
\* (subdomain, domain, tld)
split_domain(hostname_parts) ==
    IF Len(hostname_parts) >= 3
    THEN <<Join(Take(hostname_parts, Len(hostname_parts) - 2), <<".">>),
           hostname_parts[Len(hostname_parts) - 1],
           hostname_parts[Len(hostname_parts)]>>
    ELSE IF Len(hostname_parts) = 2
    THEN <<(<<>>), hostname_parts[1], hostname_parts[2]>>
    ELSE <<(<<>>), hostname_parts[1], (<<>>)>>

\* URLParser.get_domain_parts, from the hostname of the ParsedURL
get_domain_parts(hostname) == split_domain(Split(hostname, "."))
(***************************************************************************)
(* Inputs                                                                  *)
(***************************************************************************)

\* the longest query string of an input url holds MaxParams parameters
MaxParams == 2

\* "utm_source"
utm_source == <<"u", "t", "m", "_", "s", "o", "u", "r", "c", "e">>

\* scheme and authority of an input url: "http://WWW.Example.COM:80", "https://a.com:443",
\* "http://www.www.a.com", "http://a.com:abc", "http://[invalid", "ftp://a.com" and ""
Prefixes ==
    { <<"h", "t", "t", "p", ":", "/", "/", "W", "W", "W", ".", "E", "x", "a", "m", "p", "l", "e", ".", "C", "O", "M", ":", "8", "0">>,
      <<"h", "t", "t", "p", "s", ":", "/", "/", "a", ".", "c", "o", "m", ":", "4", "4", "3">>,
      <<"h", "t", "t", "p", ":", "/", "/", "w", "w", "w", ".", "w", "w", "w", ".", "a", ".", "c", "o", "m">>,
      <<"h", "t", "t", "p", ":", "/", "/", "a", ".", "c", "o", "m", ":", "a", "b", "c">>,
      <<"h", "t", "t", "p", ":", "/", "/", "[", "i", "n", "v", "a", "l", "i", "d">>,
      <<"f", "t", "p", ":", "/", "/", "a", ".", "c", "o", "m">>,
      <<>> }

\* path of an input url: "", "/", "/Path/" and "/a%2520b"
Paths ==
    { <<>>,
      <<"/">>,
      <<"/", "P", "a", "t", "h", "/">>,
      <<"/", "a", "%", "2", "5", "2", "0", "b">> }

\* query parameters of an input url: "b=2", "a=1", "a=3" and "utm_source=x"
Params ==
    { <<"b", "=", "2">>,
      <<"a", "=", "1">>,
      <<"a", "=", "3">>,
      <<"u", "t", "m", "_", "s", "o", "u", "r", "c", "e", "=", "x">> }

\* fragment of an input url: none, or "#frag"
Fragments ==
    { <<>>,
      <<"#", "f", "r", "a", "g">> }

\* the lists of at most n query parameters
RECURSIVE ParamLists(_)
ParamLists(n) ==
    IF n = 0 THEN {<<>>}
    ELSE ParamLists(n - 1) \cup {Append(l, p) : l \in {m \in ParamLists(n - 1) : Len(m) = n - 1}, p \in Params}

\* "?" and the parameters joined by "&"; nothing for no parameters
QueryOf(params) == IF params = <<>> THEN <<>> ELSE <<"?">> \o Join(params, <<"&">>)

\* "http://WWW.Example.COM:80/Path/?b=2&a=1&utm_source=x#frag"
ExampleURL ==
    <<"h", "t", "t", "p", ":", "/", "/", "W", "W", "W", ".", "E", "x", "a", "m", "p", "l", "e", ".", "C", "O", "M", ":", "8", "0", "/", "P", "a", "t", "h", "/", "?", "b", "=", "2", "&", "a", "=", "1", "&", "u", "t", "m", "_", "s", "o", "u", "r", "c", "e", "=", "x", "#", "f", "r", "a", "g">>

\* "http://archives.hartford.edu/x"
ArchivesURL == <<"h", "t", "t", "p", ":", "/", "/", "a", "r", "c", "h", "i", "v", "e", "s", ".", "h", "a", "r", "t", "f", "o", "r", "d", ".", "e", "d", "u", "/", "x">>

\* urls of their own: the two above, "http://localhost/", "http://a.com//",
\* "http://a.com/x//" and "http://a.com/a%23b"
ExtraURLs ==
    { ExampleURL,
      ArchivesURL,
      <<"h", "t", "t", "p", ":", "/", "/", "l", "o", "c", "a", "l", "h", "o", "s", "t", "/">>,
      <<"h", "t", "t", "p", ":", "/", "/", "a", ".", "c", "o", "m", "/", "/">>,
      <<"h", "t", "t", "p", ":", "/", "/", "a", ".", "c", "o", "m", "/", "x", "/", "/">>,
      <<"h", "t", "t", "p", ":", "/", "/", "a", ".", "c", "o", "m", "/", "a", "%", "2", "3", "b">> }

\* the url strings given to the parser
InputURLs ==
    {a \o p \o QueryOf(q) \o f : a \in Prefixes, p \in Paths, q \in ParamLists(MaxParams), f \in Fragments}
    \cup ExtraURLs

\* the tracker lists a URLParser is constructed with
TrackerSets == {{}, {utm_source}}

\* the longest list of URL records given to the deduplication
MaxRecords == 4

\* the urls of the records: "http://a.com/x", "http://WWW.a.com:80/x/#f" (the
\* same resource), "http://a.com/y" and "http://a.com:abc/" (a malformed port)
RecordURLs ==
    { <<"h", "t", "t", "p", ":", "/", "/", "a", ".", "c", "o", "m", "/", "x">>,
      <<"h", "t", "t", "p", ":", "/", "/", "W", "W", "W", ".", "a", ".", "c", "o", "m", ":", "8", "0", "/", "x", "/", "#", "f">>,
      <<"h", "t", "t", "p", ":", "/", "/", "a", ".", "c", "o", "m", "/", "y">>,
      <<"h", "t", "t", "p", ":", "/", "/", "a", ".", "c", "o", "m", ":", "a", "b", "c", "/">> }

\* the lists of at most n elements of S
ListsOf(S, n) == UNION {[1..k -> S] : k \in 0..n}

\* the longest list of crawled pages given to the link graph
MaxPages == 2

\* "http://a.com/x/", "http://a.com/x" (its canonical form), "http://b.com/y"
\* and "http://c.com/z" (never a page of the dataset)
UrlA2 == <<"h", "t", "t", "p", ":", "/", "/", "a", ".", "c", "o", "m", "/", "x", "/">>

UrlA == <<"h", "t", "t", "p", ":", "/", "/", "a", ".", "c", "o", "m", "/", "x">>

UrlB == <<"h", "t", "t", "p", ":", "/", "/", "b", ".", "c", "o", "m", "/", "y">>

UrlC == <<"h", "t", "t", "p", ":", "/", "/", "c", ".", "c", "o", "m", "/", "z">>

\* the crawled pages: a request url, the url after redirects, the internal links
PageContents ==
    [url : {UrlA2, UrlB}, final_url : {UrlA, UrlA2, UrlB},
     internal_links : {<<>>, <<UrlA>>, <<UrlB, UrlC>>}]

\* the most nodes of a graph given to the page classifier
MaxNodes == 13

(***************************************************************************)
(* State                                                                   *)
(***************************************************************************)

VARIABLES
    pc,             \* the step the run has reached
    tracker_params, \* URLParser.tracker_params
    url,            \* the url string given to the parser
    parsed,         \* the ParsedURL returned by URLParser.parse
    canonical,      \* get_canonical_url(url)
    recanonical,    \* get_canonical_url(canonical)
    cleaned,        \* clean(url): the ParsedURL it has normalized
    domain_parts,   \* get_domain_parts(url)
    records,        \* the URL records given to organize
    organized,      \* the dictionary organize returns
    summary,        \* the summary that save returns
    pages,          \* the PageContent list given to build_graph
    page_map,       \* build_graph: the url -> page mapping
    G,              \* the directed graph: nodes in insertion order, and edges
    page_i,         \* build_graph: the page a loop is at
    link_j,         \* build_graph: the link the inner loop is at
    page_types,     \* the dictionary identify_page_types returns
    damping,        \* compute_pagerank: the damping factor, in twentieths
    scores,         \* the iterate of a power iteration
    iteration,      \* the iterations a power iteration has made
    metric,         \* what compute_pagerank or compute_hits returns
    centrality,     \* the dictionary find_central_pages returns
    calls,          \* the calls of get_canonical_url in flight, one per thread
    safe,           \* a call of safe_execute: its arguments and its outcome
    conf,           \* a call of Config.get: the configuration, the key, the value
    options,        \* the keyword arguments given to normalize
    report,         \* what analyze returns
    singleton,      \* the module global _config and the callers of get_config
    orch,           \* run_all_methods: the registry, the loop and its results
    tree            \* build_tree: the records, the loops and the nodes

parserVars == <<url, parsed, canonical, recanonical, cleaned, domain_parts>>

dedupVars == <<records, organized, summary>>

graphVars == <<pages, page_map, G, page_i, link_j, page_types>>

metricVars == <<damping, scores, iteration, metric, centrality>>

systemVars == <<calls, safe, conf, options, report, singleton, orch, tree>>

vars == <<pc, tracker_params, parserVars, dedupVars, graphVars, metricVars, systemVars>>

\* a variable that holds no value yet
None == <<>>

\* nx.DiGraph()
EmptyGraph == [nodes |-> <<>>, edges |-> {}]

\* no url is being canonicalized
NoParser ==
    /\ url = None
    /\ parsed = None
    /\ canonical = None
    /\ recanonical = None
    /\ cleaned = None
    /\ domain_parts = None

\* no records are being deduplicated
NoDedup == records = <<>> /\ organized = None /\ summary = None

\* no graph is being built
NoGraph ==
    /\ pages = <<>>
    /\ page_map = None
    /\ G = EmptyGraph
    /\ page_i = 0
    /\ link_j = 0
    /\ page_types = None

\* no metric is being computed
NoMetrics ==
    /\ damping = 0
    /\ scores = None
    /\ iteration = 0
    /\ metric = None
    /\ centrality = None

\* nothing else is running
NoSystem ==
    /\ calls = None
    /\ safe = None
    /\ conf = None
    /\ options = None
    /\ report = None
    /\ singleton = None
    /\ orch = None
    /\ tree = None

(***************************************************************************)
(* Canonicalization of one url: parse, clean, and clean again              *)
(***************************************************************************)

InitCanon ==
    /\ pc = "url"
    /\ url \in InputURLs
    /\ tracker_params \in TrackerSets
    /\ parsed = None
    /\ canonical = None
    /\ recanonical = None
    /\ cleaned = None
    /\ domain_parts = None
    /\ NoDedup
    /\ NoGraph
    /\ NoMetrics
    /\ NoSystem

\* URLParser.parse(url): returns a ParsedURL, or raises ValueError
Parse ==
    /\ pc = "url"
    /\ IF parse_raises(url)
       THEN pc' = "parse_raised" /\ parsed' = None
       ELSE pc' = "parsed" /\ parsed' = parse(url)
    /\ UNCHANGED <<tracker_params, url, canonical, recanonical, cleaned, domain_parts, dedupVars, graphVars, metricVars, systemVars>>

\* URLParser.clean(url) after its call of parse, up to its return statement
Clean ==
    /\ pc = "parsed"
    /\ pc' = "cleaned"
    /\ cleaned' = normalize(remove_tracker_params(parsed, tracker_params), DefaultOptions)
    /\ UNCHANGED <<tracker_params, url, parsed, canonical, recanonical, domain_parts, dedupVars, graphVars, metricVars, systemVars>>

\* URLParser.get_canonical_url(url): what clean returns, str(parsed)
GetCanonicalUrl ==
    /\ pc = "cleaned"
    /\ pc' = "canonical"
    /\ canonical' = ParsedURL_str(cleaned)
    /\ UNCHANGED <<tracker_params, url, parsed, recanonical, cleaned, domain_parts, dedupVars, graphVars, metricVars, systemVars>>

\* URLParser.get_canonical_url(canonical): the canonical form, canonicalized again
Recanonicalize ==
    /\ pc = "canonical"
    /\ IF get_canonical_url_raises(canonical)
       THEN pc' = "recanonical_raised" /\ recanonical' = None
       ELSE pc' = "recanonical" /\ recanonical' = get_canonical_url(canonical, tracker_params)
    /\ UNCHANGED <<tracker_params, url, parsed, canonical, cleaned, domain_parts, dedupVars, graphVars, metricVars, systemVars>>

\* the rest of URLParser.get_domain_parts(url) after its call of parse
GetDomainParts ==
    /\ pc = "parsed"
    /\ pc' = "domain_parts"
    /\ domain_parts' = get_domain_parts(parsed.hostname)
    /\ UNCHANGED <<tracker_params, url, parsed, canonical, recanonical, cleaned, dedupVars, graphVars, metricVars, systemVars>>

NextCanon == Parse \/ Clean \/ GetCanonicalUrl \/ Recanonicalize \/ GetDomainParts

SpecCanon == InitCanon /\ [][NextCanon]_vars

(***************************************************************************)
(* Properties of canonicalization                                          *)
(***************************************************************************)

\* the parameter keys of the query string of a url
DictKeys(d) == {d[i].k : i \in 1..Len(d)}

QueryKeys(u) == DictKeys(parse_qs(urlsplit(u).query))

\* C1: canonicalization is idempotent: canonicalizing a canonical form
\* returns it unchanged (and does not raise).
C1_CanonicalizationIdempotent ==
    pc \in {"recanonical", "recanonical_raised"} => (pc = "recanonical" /\ recanonical = canonical)

\* C2: the query string of a canonical form has no parameter whose key is
\* in the tracker set.
C2_NoTrackerKeyInCanonicalQuery ==
    pc = "canonical" => QueryKeys(canonical) \cap tracker_params = {}

\* C10: parse returns a ParsedURL for every input string and never raises;
\* without a scheme the scheme is "", without a path the path is "".
C10_ParseNeverRaises ==
    /\ pc # "parse_raised"
    /\ pc = "parsed" =>
          /\ (~HasChar(url, ":") => parsed.scheme = <<>>)
          /\ (url \in Prefixes => parsed.path = <<>>)

(***************************************************************************)
(* src/organizers/method_16_canonical_deduplication.py                     *)
(* A record in a group is a reference to a record of the input list: its   *)
(* position in the list.                                                   *)
(***************************************************************************)

\* organize with the records grouped by their url as written
RECURSIVE canonical_map_from_raw(_, _, _, _)
canonical_map_from_raw(recs, trackers, r, canonical_map) ==
    IF r > Len(recs) THEN canonical_map
    ELSE canonical_map_from_raw(recs, trackers, r + 1, dict_append(canonical_map, recs[r].url, r))

\* organize, the loop: canonical_map[get_canonical_url(record.url)].append(record)
RECURSIVE canonical_map_from(_, _, _, _)
canonical_map_from(recs, trackers, r, canonical_map) ==
    IF r > Len(recs) THEN canonical_map
    ELSE canonical_map_from(recs, trackers, r + 1,
             dict_append(canonical_map, get_canonical_url(recs[r].url, trackers), r))

\* organize with "len(v) >= 1" for the unique groups
organize_split_ge(canonical_map) ==
    [canonical_map |-> canonical_map,
     unique        |-> SelectSeq(canonical_map, LAMBDA it : Len(it.v) >= 1),
     duplicates    |-> SelectSeq(canonical_map, LAMBDA it : Len(it.v) > 1)]

\* organize, after the loop: the groups of one record and the groups of more
organize_split(canonical_map) ==
    [canonical_map |-> canonical_map,
     unique        |-> SelectSeq(canonical_map, LAMBDA it : Len(it.v) = 1),
     duplicates    |-> SelectSeq(canonical_map, LAMBDA it : Len(it.v) > 1)]

\* CanonicalDeduplicationOrganizer.organize raises what get_canonical_url raises
organize_raises(recs) == \E r \in 1..Len(recs) : get_canonical_url_raises(recs[r].url)

\* CanonicalDeduplicationOrganizer.organize, when it returns
organize(recs, trackers) == organize_split(canonical_map_from(recs, trackers, 1, <<>>))

InitDedup ==
    /\ pc = "records"
    /\ tracker_params = {utm_source}
    /\ records \in ListsOf([url : RecordURLs], MaxRecords)
    /\ organized = None
    /\ summary = None
    /\ NoParser
    /\ NoGraph
    /\ NoMetrics
    /\ NoSystem

\* CanonicalDeduplicationOrganizer.organize(records)
Organize ==
    /\ pc = "records"
    /\ IF organize_raises(records)
       THEN pc' = "organize_raised" /\ organized' = None
       ELSE pc' = "organized" /\ organized' = organize(records, tracker_params)
    /\ UNCHANGED <<tracker_params, records, summary, parserVars, graphVars, metricVars, systemVars>>

\* sum(len(records) - less for records in d.values())
RECURSIVE sum_len(_, _)
sum_len(d, less) == IF d = <<>> THEN 0 ELSE (Len(d[1].v) - less) + sum_len(Tail(d), less)

\* save with the members of the duplicate groups counted as the savings
save_members(organized_data) ==
    [method                |-> "canonical_deduplication",
     total_original_urls   |-> sum_len(organized_data.canonical_map, 0),
     total_canonical_urls  |-> Len(organized_data.canonical_map),
     unique_urls           |-> Len(organized_data.unique),
     duplicate_groups      |-> Len(organized_data.duplicates),
     total_duplicates      |-> sum_len(organized_data.duplicates, 0),
     deduplication_savings |-> sum_len(organized_data.duplicates, 0)]

\* CanonicalDeduplicationOrganizer.save: the summary it writes and returns
save(organized_data) ==
    [method                |-> "canonical_deduplication",
     total_original_urls   |-> sum_len(organized_data.canonical_map, 0),
     total_canonical_urls  |-> Len(organized_data.canonical_map),
     unique_urls           |-> Len(organized_data.unique),
     duplicate_groups      |-> Len(organized_data.duplicates),
     total_duplicates      |-> sum_len(organized_data.duplicates, 0),
     deduplication_savings |-> sum_len(organized_data.duplicates, 1)]

\* CanonicalDeduplicationOrganizer.save(organized_data), as run calls it with
\* the result of organize
Save ==
    /\ pc = "organized"
    /\ pc' = "saved"
    /\ summary' = save(organized)
    /\ UNCHANGED <<tracker_params, records, organized, parserVars, graphVars, metricVars, systemVars>>

NextDedup == Organize \/ Save

SpecDedup == InitDedup /\ [][NextDedup]_vars

\* the groups of the result, unique and duplicate
Groups == organized.unique \o organized.duplicates

\* the places (group, position) at which record r stands in the groups
PlacesOf(r) == {<<g, m>> \in (1..Len(Groups)) \X (1..Len(records)) :
                    m <= Len(Groups[g].v) /\ Groups[g].v[m] = r}

\* C3: organize is a lossless partition of its input: every input record is
\* in exactly one place of the unique and duplicate groups, no key is in both
\* maps, a unique group has one member and a duplicate group at least two.
C3_LosslessPartition ==
    pc = "organized" =>
        /\ \A r \in 1..Len(records) : Cardinality(PlacesOf(r)) = 1
        /\ \A g \in 1..Len(Groups) : \A m \in 1..Len(Groups[g].v) : Groups[g].v[m] \in 1..Len(records)
        /\ DictKeys(organized.unique) \cap DictKeys(organized.duplicates) = {}
        /\ \A g \in 1..Len(organized.unique) : Len(organized.unique[g].v) = 1
        /\ \A g \in 1..Len(organized.duplicates) : Len(organized.duplicates[g].v) >= 2

\* organize has returned both a unique group and a duplicate group
C3_Witness ==
    pc = "organized" /\ organized.unique # <<>> /\ organized.duplicates # <<>>

\* the members of a group
Members(group) == {group.v[m] : m \in 1..Len(group.v)}

\* C4: two different records whose urls have the same canonical form are in
\* the same duplicate group, keyed by that canonical form; records with
\* different canonical forms are never in the same group.
C4_SameCanonicalSameGroup ==
    pc = "organized" =>
        /\ \A r1, r2 \in 1..Len(records) :
              (r1 # r2 /\ get_canonical_url(records[r1].url, tracker_params)
                          = get_canonical_url(records[r2].url, tracker_params))
              => \E g \in 1..Len(organized.duplicates) :
                    /\ organized.duplicates[g].k = get_canonical_url(records[r1].url, tracker_params)
                    /\ {r1, r2} \subseteq Members(organized.duplicates[g])
        /\ \A g \in 1..Len(Groups) : \A r1, r2 \in Members(Groups[g]) :
              get_canonical_url(records[r1].url, tracker_params)
              = get_canonical_url(records[r2].url, tracker_params)

\* organize has grouped two records of different urls and kept a third apart
C4_Witness ==
    /\ pc = "organized"
    /\ \E g \in 1..Len(organized.duplicates) : \E r1, r2 \in Members(organized.duplicates[g]) :
          records[r1].url # records[r2].url
    /\ organized.unique # <<>>

(***************************************************************************)
(* src/analyzers/link_graph_analyzer.py                                    *)
(* A graph is its nodes in insertion order and its set of edges (source,   *)
(* target), as networkx.DiGraph keeps them: no node twice, no edge twice.  *)
(***************************************************************************)

\* the elements of a list
Range(s) == {s[k] : k \in 1..Len(s)}

\* G.add_node(n)
add_node(g, n) == IF n \in Range(g.nodes) THEN g ELSE [g EXCEPT !.nodes = Append(@, n)]

\* G.add_edge(u, v): both ends become nodes
add_edge_nodes(g, u, v) == [g EXCEPT !.edges = @ \cup {<<u, v>>}]

add_edge(g, u, v) == add_edge_nodes(add_node(add_node(g, u), v), u, v)

\* G.in_degree(n) and G.out_degree(n)
in_degree(g, n) == Cardinality({e \in g.edges : e[2] = n})

out_degree(g, n) == Cardinality({e \in g.edges : e[1] = n})

\* build_graph: page_map = {page.url: page}, updated with {page.final_url: page};
\* a page is a position in the list, and a later page replaces an earlier one
last_page(ps, u, field) ==
    CHOOSE k \in 1..Len(ps) : ps[k][field] = u /\ \A m \in (k + 1)..Len(ps) : ps[m][field] # u

build_page_map(ps) ==
    [u \in {ps[k].url : k \in 1..Len(ps)} \cup {ps[k].final_url : k \in 1..Len(ps)} |->
        IF \E k \in 1..Len(ps) : ps[k].final_url = u
        THEN last_page(ps, u, "final_url") ELSE last_page(ps, u, "url")]

\* build_graph with an edge added for every link
in_dataset_always(link, pm, g) == TRUE

\* build_graph with the target looked up among the nodes only
in_dataset_nodes(link, pm, g) == link \in Range(g.nodes)

\* build_graph: "link in page_map or link in G.nodes"
in_dataset(link, pm, g) == link \in DOMAIN pm \/ link \in Range(g.nodes)

\* build_graph, one link of one page: the edge is added if the target is in
\* the dataset
add_link(g, pm, source, link) ==
    IF in_dataset(link, pm, g) THEN add_edge(g, source, link) ELSE g

InitGraph ==
    /\ pc = "pages"
    /\ tracker_params = {utm_source}
    /\ pages \in ListsOf(PageContents, MaxPages)
    /\ page_map = None
    /\ G = EmptyGraph
    /\ page_i = 0
    /\ link_j = 0
    /\ page_types = None
    /\ NoParser
    /\ NoDedup
    /\ NoMetrics
    /\ NoSystem

\* build_graph: G = nx.DiGraph() and the page map
BuildPageMap ==
    /\ pc = "pages"
    /\ pc' = "add_nodes"
    /\ G' = EmptyGraph
    /\ page_map' = build_page_map(pages)
    /\ page_i' = 1
    /\ UNCHANGED <<tracker_params, pages, link_j, page_types, parserVars, dedupVars, metricVars, systemVars>>

\* build_graph, first loop: G.add_node(page.url)
AddNode ==
    /\ pc = "add_nodes"
    /\ page_i <= Len(pages)
    /\ G' = add_node(G, pages[page_i].url)
    /\ page_i' = page_i + 1
    /\ UNCHANGED <<pc, tracker_params, pages, page_map, link_j, page_types, parserVars, dedupVars, metricVars, systemVars>>

\* build_graph: the first loop ends and the second begins
NodesDone ==
    /\ pc = "add_nodes"
    /\ page_i > Len(pages)
    /\ pc' = "add_edges"
    /\ page_i' = 1
    /\ link_j' = 1
    /\ UNCHANGED <<tracker_params, pages, page_map, G, page_types, parserVars, dedupVars, metricVars, systemVars>>

\* build_graph, second loop: one link of page.internal_links
AddEdge ==
    /\ pc = "add_edges"
    /\ page_i <= Len(pages)
    /\ link_j <= Len(pages[page_i].internal_links)
    /\ G' = add_link(G, page_map, pages[page_i].url, pages[page_i].internal_links[link_j])
    /\ link_j' = link_j + 1
    /\ UNCHANGED <<pc, tracker_params, pages, page_map, page_i, page_types, parserVars, dedupVars, metricVars, systemVars>>

\* build_graph, second loop: the links of a page are done
NextPage ==
    /\ pc = "add_edges"
    /\ page_i <= Len(pages)
    /\ link_j > Len(pages[page_i].internal_links)
    /\ page_i' = page_i + 1
    /\ link_j' = 1
    /\ UNCHANGED <<pc, tracker_params, pages, page_map, G, page_types, parserVars, dedupVars, metricVars, systemVars>>

\* build_graph: return G
ReturnGraph ==
    /\ pc = "add_edges"
    /\ page_i > Len(pages)
    /\ pc' = "built"
    /\ UNCHANGED <<tracker_params, pages, page_map, G, page_i, link_j, page_types, parserVars, dedupVars, metricVars, systemVars>>

\* identify_page_types with the orphan rule tried before the leaf rule
page_type_orphan_first(ind, outd) ==
    IF ind >= 5 /\ outd >= 3 THEN "cornerstone"
    ELSE IF outd >= 10 THEN "hub"
    ELSE IF ind >= 5 THEN "authority"
    ELSE IF ind = 0 THEN "orphan"
    ELSE IF outd = 0 THEN "leaf"
    ELSE "normal"

\* identify_page_types: the label of a node, by the first rule that matches
page_type(ind, outd) ==
    IF ind >= 5 /\ outd >= 3 THEN "cornerstone"
    ELSE IF outd >= 10 THEN "hub"
    ELSE IF ind >= 5 THEN "authority"
    ELSE IF outd = 0 THEN "leaf"
    ELSE IF ind = 0 THEN "orphan"
    ELSE "normal"

\* identify_page_types with "if" for "elif" at the orphan rule: a node without
\* links in either direction is appended to two lists
classify_node_twice(types, g, node) ==
    IF in_degree(g, node) = 0 /\ out_degree(g, node) = 0
    THEN dict_append(dict_append(types, "leaf", node), "orphan", node)
    ELSE dict_append(types, page_type(in_degree(g, node), out_degree(g, node)), node)

\* identify_page_types, one node: page_types[label].append(node)
classify_node(types, g, node) ==
    dict_append(types, page_type(in_degree(g, node), out_degree(g, node)), node)

\* identify_page_types, the loop over G.nodes()
RECURSIVE classify_from(_, _, _)
classify_from(types, g, n) ==
    IF n > Len(g.nodes) THEN types
    ELSE classify_from(classify_node(types, g, g.nodes[n]), g, n + 1)

\* LinkGraphAnalyzer.identify_page_types
identify_page_types(g) == classify_from(<<>>, g, 1)

\* analyze: the report's page_types, label -> len(urls)
page_type_counts(types) == [k \in DictKeys(types) |-> Len((CHOOSE it \in Range(types) : it.k = k).v)]

\* LinkGraphAnalyzer.identify_page_types(G)
IdentifyPageTypes ==
    /\ pc = "built"
    /\ pc' = "typed"
    /\ page_types' = identify_page_types(G)
    /\ UNCHANGED <<tracker_params, pages, page_map, G, page_i, link_j, parserVars, dedupVars, metricVars, systemVars>>

NextGraph ==
    \/ BuildPageMap
    \/ AddNode
    \/ NodesDone
    \/ AddEdge
    \/ NextPage
    \/ ReturnGraph
    \/ IdentifyPageTypes

SpecGraph == InitGraph /\ [][NextGraph]_vars

(***************************************************************************)
(* The page classifier on graphs of every degree: node k of a graph of n  *)
(* nodes is named by the digits of k, and each of the first a nodes links  *)
(* to each of the first b nodes.                                           *)
(***************************************************************************)

NodeNames(n) == [k \in 1..n |-> IntToStr(k)]

LinkedGraph(n, a, b) ==
    [nodes |-> NodeNames(n),
     edges |-> {<<IntToStr(u), IntToStr(v)>> : u \in 1..a, v \in 1..b}]

InitPageTypes ==
    /\ pc = "built"
    /\ tracker_params = {}
    /\ pages = <<>>
    /\ page_map = None
    /\ \E n \in 0..MaxNodes : \E a, b \in 0..n : G = LinkedGraph(n, a, b)
    /\ page_i = 0
    /\ link_j = 0
    /\ page_types = None
    /\ NoParser
    /\ NoDedup
    /\ NoMetrics
    /\ NoSystem

NextPageTypes == IdentifyPageTypes

SpecPageTypes == InitPageTypes /\ [][NextPageTypes]_vars


(***************************************************************************)
(* The graph metrics: compute_pagerank, compute_hits, find_central_pages.  *)
(* nx.pagerank and nx.hits are the power iterations of networkx; a float   *)
(* is a fixed-point number, 1.0 being Scale for a PageRank score and       *)
(* HitsScale for a hub or authority score.  What a library call does is a  *)
(* record: whether it raises, and the value it returns when it does not.   *)
(***************************************************************************)

\* the most nodes of a graph given to the metrics
MaxRankNodes == 3

\* 1.0 as a PageRank score
Scale == 10000000

\* 1.0 as a hub or authority score
HitsScale == 10000

\* nx.pagerank and nx.hits: max_iter=100
max_iter == 100

\* the damping factors given to compute_pagerank, in twentieths: 0.85 (the
\* default) and 1.0
Dampings == {17, 20}

\* the links a metrics graph may hold: 1 -> 2, 2 -> 1, 3 -> 1, 1 -> 1
\* (a self-loop), 4 -> 3 and 2 -> 4
RankLinks == {<<1, 2>>, <<2, 1>>, <<3, 1>>, <<1, 1>>, <<4, 3>>, <<2, 4>>}

\* the graphs given to the metrics: n nodes and any of the links among them
RankGraphs ==
    UNION {{[nodes |-> NodeNames(n), edges |-> {<<IntToStr(e[1]), IntToStr(e[2])>> : e \in es}] :
                es \in SUBSET {e \in RankLinks : e[1] <= n /\ e[2] <= n}} :
           n \in 0..MaxRankNodes}

\* sum(x[n] for n in nodes[:k])
RECURSIVE sum_values(_, _, _)
sum_values(x, nodes, k) == IF k = 0 THEN 0 ELSE x[nodes[k]] + sum_values(x, nodes, k - 1)

\* max(x.values()) over nodes[:k], for scores that are not negative
RECURSIVE max_value(_, _, _)
max_value(x, nodes, k) ==
    IF k = 0 THEN 0
    ELSE IF x[nodes[k]] > max_value(x, nodes, k - 1) THEN x[nodes[k]]
    ELSE max_value(x, nodes, k - 1)

\* err = sum(abs(x[n] - xlast[n]) for n in x)
score_err(x, xlast, nodes) ==
    sum_values([n \in Range(nodes) |-> IF x[n] >= xlast[n] THEN x[n] - xlast[n] ELSE xlast[n] - x[n]],
               nodes, Len(nodes))

\* nx.pagerank, one iteration in which the dangling nodes pass their score to
\* no node
pagerank_step_leak(g, alpha, xlast) ==
    [n \in Range(g.nodes) |->
        sum_values([u \in Range(g.nodes) |->
                       IF <<u, n>> \in g.edges THEN (alpha * xlast[u]) \div (20 * out_degree(g, u)) ELSE 0],
                   g.nodes, Len(g.nodes))
        + ((20 - alpha) * Scale) \div (20 * Len(g.nodes))]

\* nx.pagerank, one iteration: every node passes alpha times its score to its
\* successors in equal shares, the dangling nodes pass theirs to every node
\* in equal shares, and every node receives (1 - alpha) / N
pagerank_step(g, alpha, xlast) ==
    [n \in Range(g.nodes) |->
        sum_values([u \in Range(g.nodes) |->
                       IF <<u, n>> \in g.edges THEN (alpha * xlast[u]) \div (20 * out_degree(g, u)) ELSE 0],
                   g.nodes, Len(g.nodes))
        + ((alpha * sum_values([u \in Range(g.nodes) |-> IF out_degree(g, u) = 0 THEN xlast[u] ELSE 0],
                               g.nodes, Len(g.nodes))) \div 20) \div Len(g.nodes)
        + ((20 - alpha) * Scale) \div (20 * Len(g.nodes))]

\* compute_pagerank without its except clause
compute_pagerank_reraise(lib) == lib

\* compute_pagerank: "try: return nx.pagerank(G, alpha=damping)", "except: return {}"
compute_pagerank(lib) == IF lib.raises THEN [raises |-> FALSE, value |-> <<>>] ELSE lib

\* nx.hits, one iteration: a[nbr] += hlast[n] over the links n -> nbr
hits_authority(g, hlast) ==
    [n \in Range(g.nodes) |->
        sum_values([u \in Range(g.nodes) |-> IF <<u, n>> \in g.edges THEN hlast[u] ELSE 0],
                   g.nodes, Len(g.nodes))]

\* nx.hits, one iteration: h[n] += a[nbr] over the links n -> nbr
hits_hub(g, a) ==
    [n \in Range(g.nodes) |->
        sum_values([v \in Range(g.nodes) |-> IF <<n, v>> \in g.edges THEN a[v] ELSE 0],
                   g.nodes, Len(g.nodes))]

\* nx.hits: h[n] *= 1.0 / sh and a[n] *= 1.0 / sa
hits_normalize(h, a, sh, sa) ==
    [h |-> [n \in DOMAIN h |-> (h[n] * HitsScale) \div sh],
     a |-> [n \in DOMAIN a |-> (a[n] * HitsScale) \div sa]]

\* nx.hits, one iteration: the hubs and authorities, each scaled by its maximum
hits_step(g, hlast) ==
    hits_normalize(hits_hub(g, hits_authority(g, hlast)), hits_authority(g, hlast),
                   max_value(hits_hub(g, hits_authority(g, hlast)), g.nodes, Len(g.nodes)),
                   max_value(hits_authority(g, hlast), g.nodes, Len(g.nodes)))

\* nx.hits, normalized=True: the scores of the last iteration, each scaled by
\* its sum, as the pair (hubs, authorities)
hits_result(g, s) ==
    <<hits_normalize(s.h, s.a, sum_values(s.h, g.nodes, Len(g.nodes)),
                     sum_values(s.a, g.nodes, Len(g.nodes))).h,
      hits_normalize(s.h, s.a, sum_values(s.h, g.nodes, Len(g.nodes)),
                     sum_values(s.a, g.nodes, Len(g.nodes))).a>>

\* compute_hits: "try: return nx.hits(G)", "except: return {}, {}"
compute_hits(lib) == IF lib.raises THEN [raises |-> FALSE, value |-> <<(<<>>), (<<>>)>>] ELSE lib

\* find_central_pages with the betweenness computed for every graph
find_central_pages_always(g, lib) ==
    [in_degree |-> [n \in Range(g.nodes) |-> in_degree(g, n)],
     out_degree |-> [n \in Range(g.nodes) |-> out_degree(g, n)],
     betweenness |-> IF lib.raises THEN <<>> ELSE lib.value]

\* find_central_pages: the degrees of every node and, for a graph of more than
\* one node, what nx.betweenness_centrality returns, or {} when it raises
find_central_pages(g, lib) ==
    IF Len(g.nodes) > 1
    THEN [in_degree |-> [n \in Range(g.nodes) |-> in_degree(g, n)],
          out_degree |-> [n \in Range(g.nodes) |-> out_degree(g, n)],
          betweenness |-> IF lib.raises THEN <<>> ELSE lib.value]
    ELSE [in_degree |-> [n \in Range(g.nodes) |-> in_degree(g, n)],
          out_degree |-> [n \in Range(g.nodes) |-> out_degree(g, n)]]

\* what nx.betweenness_centrality(G) may do: raise, or return a score for
\* every node (a score is 0.0, or more)
betweenness_centrality(g) ==
    {[raises |-> TRUE, value |-> None]}
    \cup {[raises |-> FALSE, value |-> b] : b \in [Range(g.nodes) -> {0, 1}]}

InitMetrics ==
    /\ pc = "graph"
    /\ tracker_params = {}
    /\ pages = <<>>
    /\ page_map = None
    /\ G \in RankGraphs
    /\ page_i = 0
    /\ link_j = 0
    /\ page_types = None
    /\ damping \in Dampings
    /\ scores = None
    /\ iteration = 0
    /\ metric = None
    /\ centrality = None
    /\ NoParser
    /\ NoDedup
    /\ NoSystem

\* compute_pagerank(G, damping), nx.pagerank up to its loop: {} for a graph
\* without nodes, else the score 1/N for every node
PagerankStart ==
    /\ pc = "graph"
    /\ iteration' = 0
    /\ IF Len(G.nodes) = 0
       THEN /\ pc' = "pagerank_returned"
            /\ scores' = None
            /\ metric' = compute_pagerank([raises |-> FALSE, value |-> <<>>])
       ELSE /\ pc' = "pagerank"
            /\ scores' = [n \in Range(G.nodes) |-> Scale \div Len(G.nodes)]
            /\ metric' = None
    /\ UNCHANGED <<tracker_params, damping, centrality, parserVars, dedupVars, graphVars, systemVars>>

\* nx.pagerank with "while True" in place of "for _ in range(max_iter)"
PagerankIterate_forever ==
    /\ pc = "pagerank"
    /\ iteration' = IF iteration < max_iter THEN iteration + 1 ELSE iteration
    /\ scores' = pagerank_step(G, damping, scores)
    /\ IF score_err(scores', scores, G.nodes) < Len(G.nodes) * (Scale \div 1000000)
       THEN /\ pc' = "pagerank_returned"
            /\ metric' = compute_pagerank([raises |-> FALSE, value |-> scores'])
       ELSE /\ pc' = "pagerank"
            /\ metric' = None
    /\ UNCHANGED <<tracker_params, damping, centrality, parserVars, dedupVars, graphVars, systemVars>>

\* nx.pagerank, one pass of "for _ in range(max_iter)": the scores are
\* returned when err < N * tol (tol=1.0e-06), and PowerIterationFailedConvergence
\* is raised when the last pass ends without that
PagerankIterate ==
    /\ pc = "pagerank"
    /\ iteration' = iteration + 1
    /\ scores' = pagerank_step(G, damping, scores)
    /\ IF score_err(scores', scores, G.nodes) < Len(G.nodes) * (Scale \div 1000000)
       THEN /\ pc' = "pagerank_returned"
            /\ metric' = compute_pagerank([raises |-> FALSE, value |-> scores'])
       ELSE IF iteration' = max_iter
       THEN /\ pc' = "pagerank_failed"
            /\ metric' = compute_pagerank([raises |-> TRUE, value |-> None])
       ELSE /\ pc' = "pagerank"
            /\ metric' = None
    /\ UNCHANGED <<tracker_params, damping, centrality, parserVars, dedupVars, graphVars, systemVars>>

\* compute_hits(G), nx.hits up to its loop: ({}, {}) for a graph without
\* nodes, else the hub score 1/N for every node
HitsStart ==
    /\ pc = "graph"
    /\ iteration' = 0
    /\ IF Len(G.nodes) = 0
       THEN /\ pc' = "hits_returned"
            /\ scores' = None
            /\ metric' = compute_hits([raises |-> FALSE, value |-> <<(<<>>), (<<>>)>>])
       ELSE /\ pc' = "hits"
            /\ scores' = [n \in Range(G.nodes) |-> HitsScale \div Len(G.nodes)]
            /\ metric' = None
    /\ UNCHANGED <<tracker_params, damping, centrality, parserVars, dedupVars, graphVars, systemVars>>

\* nx.hits, one pass of "for _ in range(max_iter)": "1.0 / max(h.values())"
\* raises ZeroDivisionError when no hub score is positive, the scores are
\* returned when err < tol (tol=1.0e-08, less than one unit of HitsScale), and
\* PowerIterationFailedConvergence is raised when the last pass ends without that
HitsIterate ==
    /\ pc = "hits"
    /\ iteration' = iteration + 1
    /\ IF max_value(hits_hub(G, hits_authority(G, scores)), G.nodes, Len(G.nodes)) = 0
       THEN /\ pc' = "hits_failed"
            /\ scores' = scores
            /\ metric' = compute_hits([raises |-> TRUE, value |-> None])
       ELSE /\ scores' = hits_step(G, scores).h
            /\ IF score_err(scores', scores, G.nodes) < 1
               THEN /\ pc' = "hits_returned"
                    /\ metric' = compute_hits([raises |-> FALSE, value |-> hits_result(G, hits_step(G, scores))])
               ELSE IF iteration' = max_iter
               THEN /\ pc' = "hits_failed"
                    /\ metric' = compute_hits([raises |-> TRUE, value |-> None])
               ELSE /\ pc' = "hits"
                    /\ metric' = None
    /\ UNCHANGED <<tracker_params, damping, centrality, parserVars, dedupVars, graphVars, systemVars>>

\* find_central_pages(G)
FindCentralPages ==
    /\ pc = "graph"
    /\ \E lib \in betweenness_centrality(G) :
          /\ centrality' = find_central_pages(G, lib)
          /\ pc' = IF Len(G.nodes) > 1 /\ lib.raises THEN "betweenness_failed" ELSE "centrality"
    /\ UNCHANGED <<tracker_params, damping, scores, iteration, metric, parserVars, dedupVars, graphVars, systemVars>>

NextMetrics ==
    \/ PagerankStart
    \/ PagerankIterate
    \/ HitsStart
    \/ HitsIterate
    \/ FindCentralPages

SpecMetrics == InitMetrics /\ [][NextMetrics]_vars

\* every call that can go on does go on: a call that has begun runs to its end
SpecMetricsFair == SpecMetrics /\ WF_vars(NextMetrics)
(***************************************************************************)
(* Properties of the link graph                                            *)
(***************************************************************************)

\* the canonical form of a url of the dataset
Canon(u) == get_canonical_url(u, tracker_params)

\* the node the claims give a page: the canonical form of its final_url
CanonicalNode(p) == Canon(pages[p].final_url)

\* C5: the nodes of the graph are the canonical forms of the pages'
\* final_url values: one node per distinct canonical final_url, shared by
\* the pages whose final_url canonicalizes to it.
C5_NodesAreCanonicalFinalUrls ==
    pc = "built" => Range(G.nodes) = {CanonicalNode(p) : p \in 1..Len(pages)}

\* some link of page p, canonicalized, is the canonical url or final_url of page q
LinksTo(p, q) ==
    \E l \in 1..Len(pages[p].internal_links) :
        Canon(pages[p].internal_links[l]) \in {Canon(pages[q].url), Canon(pages[q].final_url)}

\* C6: there is an edge from the node of page P to the node of page Q iff
\* some internal link of P, once canonicalized, equals the canonical form of
\* Q's url or of Q's final_url.
C6_EdgeIffCanonicalLink ==
    pc = "built" =>
        \A p, q \in 1..Len(pages) :
            <<CanonicalNode(p), CanonicalNode(q)>> \in G.edges <=> LinksTo(p, q)

\* the urls and final_urls of the input pages
Dataset == {pages[p].url : p \in 1..Len(pages)} \cup {pages[p].final_url : p \in 1..Len(pages)}

\* the link targets that are neither the url nor the final_url of a page
AbsentLinks == UNION {Range(pages[p].internal_links) : p \in 1..Len(pages)} \ Dataset

\* C7: a link target that is neither the url nor the final_url of an input
\* page is never a node of the graph and never the target of an edge, at
\* any step of build_graph, and build_graph returns.
C7_AbsentTargetsDropped ==
    /\ \A l \in AbsentLinks : l \notin Range(G.nodes) /\ \A e \in G.edges : e[2] # l
    /\ pc \in {"pages", "add_nodes", "add_edges", "built", "typed"}

\* build_graph has returned a graph with an edge, for pages with an absent link target
C7_Witness == pc = "built" /\ AbsentLinks # {} /\ G.edges # {}

(***************************************************************************)
(* Properties of the page classifier                                       *)
(***************************************************************************)

\* the labels under which a node is listed
LabelsOf(node) == {it.k : it \in {t \in Range(page_types) : node \in Range(t.v)}}

\* the node is listed under this label and no other
Labelled(node, label) == LabelsOf(node) = {label}

\* the rules of the decision table, in their order, and their labels
Rule(k, ind, outd) ==
    CASE k = 1 -> ind >= 5 /\ outd >= 3
      [] k = 2 -> outd >= 10
      [] k = 3 -> ind >= 5
      [] k = 4 -> outd = 0
      [] k = 5 -> ind = 0
      [] k = 6 -> TRUE

RuleLabels == <<"cornerstone", "hub", "authority", "leaf", "orphan", "normal">>

FirstRule(ind, outd) ==
    CHOOSE k \in 1..6 : Rule(k, ind, outd) /\ \A m \in 1..(k - 1) : ~Rule(m, ind, outd)

\* C8: the label of a node is the one of the first matching rule in the order
\* cornerstone, hub, authority, leaf, orphan, normal; (0,0) is leaf, (6,4) is
\* cornerstone and (2,12) is hub.
C8_FirstMatchingRule ==
    pc = "typed" =>
        \A node \in Range(G.nodes) :
            /\ Labelled(node, RuleLabels[FirstRule(in_degree(G, node), out_degree(G, node))])
            /\ (in_degree(G, node) = 0 /\ out_degree(G, node) = 0) => Labelled(node, "leaf")
            /\ (in_degree(G, node) = 6 /\ out_degree(G, node) = 4) => Labelled(node, "cornerstone")
            /\ (in_degree(G, node) = 2 /\ out_degree(G, node) = 12) => Labelled(node, "hub")

\* a graph with a node of degrees (2,12) and a node of degrees (0,0) has been classified
C8_Witness ==
    /\ pc = "typed"
    /\ \E node \in Range(G.nodes) : in_degree(G, node) = 2 /\ out_degree(G, node) = 12
    /\ \E node \in Range(G.nodes) : in_degree(G, node) = 0 /\ out_degree(G, node) = 0

PageTypeLabels == {"cornerstone", "hub", "authority", "leaf", "orphan", "normal"}

\* the sum of the counts of the report's page_types
RECURSIVE SumCounts(_, _)
SumCounts(counts, labels) ==
    IF labels = {} THEN 0
    ELSE counts[CHOOSE l \in labels : TRUE]
         + SumCounts(counts, labels \ {CHOOSE l \in labels : TRUE})

\* C9: every node of the graph is under exactly one of the six labels: the
\* label lists are pairwise disjoint, hold no node twice, cover the nodes,
\* and their sizes sum to the number of nodes.
C9_LabelsPartitionNodes ==
    pc = "typed" =>
        /\ DictKeys(page_types) \subseteq PageTypeLabels
        /\ \A node \in Range(G.nodes) : Cardinality(LabelsOf(node)) = 1
        /\ \A t \in Range(page_types) : Range(t.v) \subseteq Range(G.nodes)
        /\ \A t \in Range(page_types) : Cardinality(Range(t.v)) = Len(t.v)
        /\ SumCounts(page_type_counts(page_types), DictKeys(page_types)) = Len(G.nodes)

\* a graph whose nodes fall under three labels or more has been classified
C9_Witness == pc = "typed" /\ Cardinality(DictKeys(page_types)) >= 3


(***************************************************************************)
(* Properties of the graph metrics                                         *)
(***************************************************************************)

\* C11: compute_pagerank and compute_hits never raise to their caller; on a
\* graph without nodes, and whenever the library call raises (the iteration
\* did not converge, or it failed inside), compute_pagerank returns the
\* empty map and compute_hits a pair of empty maps.
C11_MetricsNeverRaise ==
    metric # None =>
        /\ ~metric.raises
        /\ (Len(G.nodes) = 0 \/ pc \in {"pagerank_failed", "hits_failed"}) =>
              metric.value = IF pc \in {"pagerank_returned", "pagerank_failed"}
                             THEN <<>> ELSE <<(<<>>), (<<>>)>>

\* nx.pagerank raised for want of convergence, and compute_pagerank returned {}
C11_Witness == pc = "pagerank_failed" /\ iteration = max_iter /\ metric.value = <<>>

\* C17: on a graph of N >= 1 nodes without links, compute_pagerank returns
\* a score for every node, each 1/N within the tolerance 1.0e-06 of the
\* iteration, and the scores sum to 1 within N times that tolerance.
C17_UniformOnEdgelessGraph ==
    (pc \in {"pagerank_returned", "pagerank_failed"} /\ Len(G.nodes) >= 1 /\ G.edges = {}) =>
        /\ pc = "pagerank_returned"
        /\ DOMAIN metric.value = Range(G.nodes)
        /\ \A n \in Range(G.nodes) :
              /\ metric.value[n] * Len(G.nodes) <= Scale + Len(G.nodes) * (Scale \div 1000000)
              /\ metric.value[n] * Len(G.nodes) >= Scale - Len(G.nodes) * (Scale \div 1000000)
        /\ sum_values(metric.value, G.nodes, Len(G.nodes)) <= Scale + Len(G.nodes) * (Scale \div 1000000)
        /\ sum_values(metric.value, G.nodes, Len(G.nodes)) >= Scale - Len(G.nodes) * (Scale \div 1000000)

\* compute_pagerank has returned the scores of a graph of MaxRankNodes nodes
\* without links
C17_Witness ==
    /\ pc = "pagerank_returned"
    /\ Len(G.nodes) = MaxRankNodes
    /\ G.edges = {}
    /\ iteration >= 1
    /\ DOMAIN metric.value = Range(G.nodes)

\* C18: find_central_pages returns the in_degree and the out_degree of every
\* node; its result has a betweenness entry exactly when the graph has more
\* than one node, and that entry is the empty map when computing it raised.
C18_CentralityEntries ==
    pc \in {"centrality", "betweenness_failed"} =>
        /\ centrality.in_degree = [n \in Range(G.nodes) |-> in_degree(G, n)]
        /\ centrality.out_degree = [n \in Range(G.nodes) |-> out_degree(G, n)]
        /\ "betweenness" \in DOMAIN centrality <=> Len(G.nodes) > 1
        /\ pc = "betweenness_failed" => centrality.betweenness = <<>>
        /\ (pc = "centrality" /\ Len(G.nodes) > 1) => DOMAIN centrality.betweenness = Range(G.nodes)

\* nx.betweenness_centrality raised on a graph with links, and
\* find_central_pages returned the degrees and an empty betweenness map
C18_Witness ==
    /\ pc = "betweenness_failed"
    /\ G.edges # {}
    /\ centrality.betweenness = <<>>
    /\ \E n \in Range(G.nodes) : centrality.in_degree[n] > 1

(***************************************************************************)
(* Properties of the canonical form                                        *)
(***************************************************************************)

\* "http://example.com/Path?a=1&b=2"
ExampleCanonical ==
    <<"h", "t", "t", "p", ":", "/", "/", "e", "x", "a", "m", "p", "l", "e", ".", "c", "o", "m", "/", "P", "a", "t", "h", "?", "a", "=", "1", "&", "b", "=", "2">>

\* C12: with the tracker set {utm_source}, the canonical form of
\* "http://WWW.Example.COM:80/Path/?b=2&a=1&utm_source=x#frag" is exactly
\* "http://example.com/Path?a=1&b=2".
C12_ExampleCanonicalForm ==
    (pc = "canonical" /\ url = ExampleURL /\ tracker_params = {utm_source})
        => canonical = ExampleCanonical

\* the example has been canonicalized with the tracker set {utm_source}
C12_Witness == pc = "canonical" /\ url = ExampleURL /\ tracker_params = {utm_source}

\* the authority of a url that begins with n characters of scheme and ":"
AuthorityOf(u, n) == netloc_of(Drop(u, n))

\* u is scheme (n characters with the ":"), "//", an authority that ends in
\* port, and the rest
HasPort(u, scheme, port) ==
    /\ StartsWith(u, scheme \o <<"/", "/">>)
    /\ Len(AuthorityOf(u, Len(scheme))) > Len(port)
    /\ Drop(AuthorityOf(u, Len(scheme)), Len(AuthorityOf(u, Len(scheme))) - Len(port)) = port

\* u without the port its authority ends in
WithoutPort(u, scheme, port) ==
    Take(u, Len(scheme) + 2 + Len(AuthorityOf(u, Len(scheme))) - Len(port))
    \o Drop(u, Len(scheme) + 2 + Len(AuthorityOf(u, Len(scheme))))

\* C13: "http://host:80/path" has the canonical form of "http://host/path",
\* and "https://host:443/path" that of "https://host/path".
C13_DefaultPortRemoved ==
    pc = "canonical" =>
        /\ HasPort(url, <<"h", "t", "t", "p", ":">>, <<":", "8", "0">>) =>
              canonical = get_canonical_url(WithoutPort(url, <<"h", "t", "t", "p", ":">>, <<":", "8", "0">>),
                                            tracker_params)
        /\ HasPort(url, <<"h", "t", "t", "p", "s", ":">>, <<":", "4", "4", "3">>) =>
              canonical = get_canonical_url(WithoutPort(url, <<"h", "t", "t", "p", "s", ":">>, <<":", "4", "4", "3">>),
                                            tracker_params)

\* an https url with port 443 and a path has been canonicalized
C13_Witness ==
    /\ pc = "canonical"
    /\ HasPort(url, <<"h", "t", "t", "p", "s", ":">>, <<":", "4", "4", "3">>)
    /\ parsed.path # <<>>
    /\ parsed.port = 443
    /\ cleaned.port = NoPort

\* a path with one trailing "/" removed when it is longer than one character
\* and ends in "/"
WithoutOneSlash(path) ==
    IF Len(path) > 1 /\ path[Len(path)] = "/" THEN Take(path, Len(path) - 1) ELSE path

\* C14: normalize with remove_trailing_slash removes exactly one trailing
\* "/" from a path longer than one character that ends in "/", leaves every
\* other path as it is (up to the percent-decoding that follows), and turns
\* no path that is not empty into the empty path.
C14_SingleTrailingSlash ==
    pc = "cleaned" =>
        /\ cleaned.path = unquote(WithoutOneSlash(parsed.path))
        /\ parsed.path # <<>> => cleaned.path # <<>>

\* the parameters of the query of a url, as parse reads them
QueryDict(u) == parse_qs(urlsplit(u).query)

\* the values of key k in the dictionary d
ValuesOf(d, k) == (CHOOSE it \in Range(d) : it.k = k).v

\* C15: the canonical query holds exactly the parameter keys of the input
\* that are not trackers, in lexicographic order of the keys, and every key
\* keeps all of its values in their order.
C15_CanonicalQueryKeys ==
    pc = "canonical" =>
        /\ DictKeys(QueryDict(canonical)) = DictKeys(QueryDict(url)) \ tracker_params
        /\ \A i, j \in 1..Len(QueryDict(canonical)) :
              i < j => StrLess(QueryDict(canonical)[i].k, QueryDict(canonical)[j].k)
        /\ \A k \in DictKeys(QueryDict(canonical)) :
              ValuesOf(QueryDict(canonical), k) = ValuesOf(QueryDict(url), k)

\* C16: a canonical form carries no fragment: it has no "#", and parsing it
\* again gives the empty fragment.
C16_NoFragmentInCanonical ==
    pc = "canonical" =>
        /\ ~HasChar(canonical, "#")
        /\ ~parse_raises(canonical) => parse(canonical).fragment = <<>>

\* the number of "." in a string
DotCount(s) == Cardinality({i \in 1..Len(s) : s[i] = "."})

\* C19: get_domain_parts splits the hostname at its dots: with three or more
\* labels the result is (the labels before the last two joined by ".", the
\* label before the last, the last label), with two labels ("", first,
\* last), and otherwise ("", the hostname, ""); the url
\* "http://archives.hartford.edu/x" gives ("archives", "hartford", "edu").
C19_DomainParts ==
    pc = "domain_parts" =>
        /\ DotCount(domain_parts[2]) = 0
        /\ DotCount(domain_parts[3]) = 0
        /\ DotCount(parsed.hostname) >= 2 =>
              /\ domain_parts[1] \o <<".">> \o domain_parts[2] \o <<".">> \o domain_parts[3] = parsed.hostname
              /\ DotCount(domain_parts[1]) = DotCount(parsed.hostname) - 2
        /\ DotCount(parsed.hostname) = 1 =>
              /\ domain_parts[1] = <<>>
              /\ domain_parts[2] \o <<".">> \o domain_parts[3] = parsed.hostname
        /\ DotCount(parsed.hostname) = 0 =>
              domain_parts = <<(<<>>), parsed.hostname, (<<>>)>>
        /\ url = ArchivesURL =>
              domain_parts = << <<"a", "r", "c", "h", "i", "v", "e", "s">>,
                                <<"h", "a", "r", "t", "f", "o", "r", "d">>,
                                <<"e", "d", "u">> >>

\* the domain parts of a hostname of four labels have been returned
C19_Witness ==
    /\ pc = "domain_parts"
    /\ DotCount(parsed.hostname) = 3
    /\ DotCount(domain_parts[1]) = 1

(***************************************************************************)
(* Properties of the deduplication summary                                 *)
(***************************************************************************)

\* the records that stand in a duplicate group
InDuplicates == {r \in 1..Len(records) : \E g \in Range(organized.duplicates) : r \in Range(g.v)}

\* C20: in the summary, deduplication_savings is the sum over the duplicate
\* groups of (member count - 1), which is total_original_urls -
\* total_canonical_urls; and unique_urls + total_duplicates is
\* total_original_urls, the number of records.
C20_DeduplicationSavings ==
    pc = "saved" =>
        /\ summary.deduplication_savings = Cardinality(InDuplicates) - Len(organized.duplicates)
        /\ summary.deduplication_savings = summary.total_original_urls - summary.total_canonical_urls
        /\ summary.unique_urls + summary.total_duplicates = summary.total_original_urls
        /\ summary.total_original_urls = Len(records)

\* a summary of two duplicate groups of two records each
C20_Witness ==
    /\ pc = "saved"
    /\ summary.duplicate_groups = 2
    /\ summary.deduplication_savings = 2
    /\ summary.total_original_urls = 4

(***************************************************************************)
(* Several threads calling get_canonical_url on one URLParser.  The parser *)
(* holds tracker_params; a call holds its local variables in its own frame. *)
(***************************************************************************)

\* the most threads that share the parser
MaxThreads == 2

\* the urls the threads canonicalize
ThreadURLs == RecordURLs \cup {ExampleURL}

\* the local variables of every call, kept in the frame of the first call
frame_shared(cs, t) == cs[1]

\* the local variables (url, parsed) of the call that thread t makes
frame(cs, t) == cs[t]

InitThreads ==
    /\ pc = "threads"
    /\ tracker_params \in TrackerSets
    /\ calls \in [1..MaxThreads -> [pc : {"called"}, url : ThreadURLs, parsed : {None}, result : {None}]]
    /\ safe = None
    /\ conf = None
    /\ options = None
    /\ report = None
    /\ singleton = None
    /\ orch = None
    /\ tree = None
    /\ NoParser
    /\ NoDedup
    /\ NoGraph
    /\ NoMetrics

\* thread t: "parsed = self.parse(url)" of clean
CallParse(t) ==
    /\ calls[t].pc = "called"
    /\ calls' = [calls EXCEPT ![t] =
                    IF parse_raises(frame(calls, t).url)
                    THEN [@ EXCEPT !.pc = "raised"]
                    ELSE [@ EXCEPT !.pc = "parsed", !.parsed = parse(frame(calls, t).url)]]
    /\ UNCHANGED <<pc, tracker_params, parserVars, dedupVars, graphVars, metricVars,
                   safe, conf, options, report, singleton, orch, tree>>

\* thread t: "parsed = self.remove_tracker_params(parsed)" and
\* "parsed = self.normalize(parsed)" of clean
CallClean(t) ==
    /\ calls[t].pc = "parsed"
    /\ calls' = [calls EXCEPT ![t] =
                    [@ EXCEPT !.pc = "cleaned",
                              !.parsed = normalize(remove_tracker_params(frame(calls, t).parsed, tracker_params),
                                                   DefaultOptions)]]
    /\ UNCHANGED <<pc, tracker_params, parserVars, dedupVars, graphVars, metricVars,
                   safe, conf, options, report, singleton, orch, tree>>

\* thread t: "return str(parsed)" of clean, returned by get_canonical_url
CallReturn(t) ==
    /\ calls[t].pc = "cleaned"
    /\ calls' = [calls EXCEPT ![t] =
                    [@ EXCEPT !.pc = "returned", !.result = ParsedURL_str(frame(calls, t).parsed)]]
    /\ UNCHANGED <<pc, tracker_params, parserVars, dedupVars, graphVars, metricVars,
                   safe, conf, options, report, singleton, orch, tree>>

NextThreads == \E t \in 1..MaxThreads : CallParse(t) \/ CallClean(t) \/ CallReturn(t)

SpecThreads == InitThreads /\ [][NextThreads]_vars

\* C21: calls of parse and get_canonical_url made concurrently on one
\* URLParser give, for each url, what a call made alone gives: the same
\* ParsedURL, the same canonical form, and an exception for the same urls.
C21_ConcurrentAsSequential ==
    pc = "threads" =>
        \A t \in 1..MaxThreads :
            /\ calls[t].pc = "parsed" => calls[t].parsed = parse(calls[t].url)
            /\ calls[t].pc = "raised" => get_canonical_url_raises(calls[t].url)
            /\ calls[t].pc = "returned" =>
                  /\ ~get_canonical_url_raises(calls[t].url)
                  /\ calls[t].result = get_canonical_url(calls[t].url, tracker_params)

\* two threads have returned different canonical forms
C21_Witness ==
    /\ pc = "threads"
    /\ calls[1].pc = "returned"
    /\ calls[2].pc = "returned"
    /\ calls[1].result # calls[2].result

(***************************************************************************)
(* src/core/logger.py: safe_execute(func, *args, operation, default).      *)
(* func is URLParser.parse, as the bound method or wrapped in a            *)
(* functools.partial, an object that has no __name__; an argument is a     *)
(* value and its type.  What a call does is a record: whether it raises,   *)
(* and the value it returns or the exception it raises.                    *)
(***************************************************************************)

\* the arguments func is called with: url strings, 123, None and []
SafeArgs ==
    [type : {"str"}, value : ThreadURLs]
    \cup {[type |-> "int", value |-> <<"1", "2", "3">>],
          [type |-> "NoneType", value |-> <<>>],
          [type |-> "list", value |-> <<>>]}

\* URLParser.parse(arg): a str is parsed; urlparse takes None and [] for
\* empty bytes, and raises AttributeError for an int, which it cannot decode
parse_call(arg) ==
    IF arg.type = "str"
    THEN IF parse_raises(arg.value)
         THEN [raises |-> TRUE, value |-> <<"V", "a", "l", "u", "e", "E", "r", "r", "o", "r">>]
         ELSE [raises |-> FALSE, value |-> parse(arg.value)]
    ELSE IF arg.type = "int"
    THEN [raises |-> TRUE, value |-> <<"A", "t", "t", "r", "i", "b", "u", "t", "e", "E", "r", "r", "o", "r">>]
    ELSE [raises |-> FALSE, value |-> parse(<<>>)]

\* safe_execute: "op = operation or func.__name__" ahead of the try, the call
\* of func within it, and "'function': func.__name__" in "except Exception"
safe_execute(has_name, call, operation, default) ==
    IF (operation = <<>> \/ call.raises) /\ ~has_name
    THEN [raises |-> TRUE, value |-> <<"A", "t", "t", "r", "i", "b", "u", "t", "e", "E", "r", "r", "o", "r">>]
    ELSE IF call.raises
    THEN [raises |-> FALSE, value |-> default]
    ELSE call

InitSafe ==
    /\ pc = "safe_execute"
    /\ tracker_params = {}
    /\ safe \in [has_name : BOOLEAN, arg : SafeArgs, operation : {None, <<"o", "p">>},
                 default : {None, <<"d">>}, outcome : {None}]
    /\ calls = None
    /\ conf = None
    /\ options = None
    /\ report = None
    /\ singleton = None
    /\ orch = None
    /\ tree = None
    /\ NoParser
    /\ NoDedup
    /\ NoGraph
    /\ NoMetrics

\* safe_execute(func, arg, operation=..., default=...)
SafeExecute ==
    /\ pc = "safe_execute"
    /\ pc' = "safe_executed"
    /\ safe' = [safe EXCEPT !.outcome = safe_execute(safe.has_name, parse_call(safe.arg),
                                                      safe.operation, safe.default)]
    /\ UNCHANGED <<tracker_params, parserVars, dedupVars, graphVars, metricVars,
                   calls, conf, options, report, singleton, orch, tree>>

NextSafe == SafeExecute

SpecSafe == InitSafe /\ [][NextSafe]_vars

\* C22: safe_execute returns what func returns when func returns, returns
\* the default when func raises an Exception, whatever the type of the
\* argument, and raises no Exception to its caller.
C22_SafeExecuteNeverRaises ==
    pc = "safe_executed" =>
        /\ ~safe.outcome.raises
        /\ safe.outcome.value = IF parse_call(safe.arg).raises
                                THEN safe.default ELSE parse_call(safe.arg).value

(***************************************************************************)
(* src/core/config.py: Config.get.  A configuration value is None, a       *)
(* scalar (s) or a mapping (d, the items in order).                        *)
(***************************************************************************)

\* the deepest nesting of mappings in a configuration
MaxDepth == 2

NoneValue == [t |-> "none", s |-> "", d |-> <<>>]

\* the values of a configuration of mappings nested n deep, with keys "a" and
\* "b": None, the scalars "v" and "" and a list, and the mappings to values
\* nested less deep
RECURSIVE ConfigValues(_)
ConfigValues(n) ==
    {NoneValue, [t |-> "scalar", s |-> "v", d |-> <<>>], [t |-> "scalar", s |-> "", d |-> <<>>],
     [t |-> "list", s |-> "", d |-> <<>>]}
    \cup IF n = 0 THEN {}
         ELSE {[t |-> "dict", s |-> "", d |-> <<>>]}
              \cup {[t |-> "dict", s |-> "", d |-> <<[k |-> key, v |-> val]>>] :
                        key \in {<<"a">>, <<"b">>}, val \in ConfigValues(n - 1)}

\* the keys asked for: "a", "b", "a.b", "a.b.a", "a." and ""
ConfigKeys ==
    {<<"a">>, <<"b">>, <<"a", ".", "b">>, <<"a", ".", "b", ".", "a">>, <<"a", ".">>, <<>>}

\* Config.get with a None reached on the way passed on, not replaced
RECURSIVE config_get_none(_, _, _)
config_get_none(value, keys, default) ==
    IF keys = <<>> THEN value
    ELSE IF value.t = "dict"
    THEN IF Head(keys) \notin DictKeys(value.d)
         THEN config_get_none(NoneValue, Tail(keys), default)
         ELSE config_get_none((CHOOSE it \in Range(value.d) : it.k = Head(keys)).v, Tail(keys), default)
    ELSE default

\* Config.get, the loop over the segments of the key: value.get(k) of a
\* mapping, the default when that is None or value is no mapping
RECURSIVE config_get_from(_, _, _)
config_get_from(value, keys, default) ==
    IF keys = <<>> THEN value
    ELSE IF value.t = "dict"
    THEN IF Head(keys) \notin DictKeys(value.d)
            \/ (CHOOSE it \in Range(value.d) : it.k = Head(keys)).v.t = "none"
         THEN default
         ELSE config_get_from((CHOOSE it \in Range(value.d) : it.k = Head(keys)).v, Tail(keys), default)
    ELSE default

\* Config.get(key, default)
Config_get(config, key, default) == config_get_from(config, Split(key, "."), default)

InitConfig ==
    /\ pc = "config"
    /\ tracker_params = {}
    /\ conf \in [config : ConfigValues(MaxDepth),
                 key : ConfigKeys,
                 default : {NoneValue, [t |-> "scalar", s |-> "default", d |-> <<>>]},
                 value : {NoneValue}]
    /\ calls = None
    /\ safe = None
    /\ options = None
    /\ report = None
    /\ singleton = None
    /\ orch = None
    /\ tree = None
    /\ NoParser
    /\ NoDedup
    /\ NoGraph
    /\ NoMetrics

\* config.get(key, default)
ConfigGet ==
    /\ pc = "config"
    /\ pc' = "config_got"
    /\ conf' = [conf EXCEPT !.value = Config_get(conf.config, conf.key, conf.default)]
    /\ UNCHANGED <<tracker_params, parserVars, dedupVars, graphVars, metricVars,
                   calls, safe, options, report, singleton, orch, tree>>

NextConfig == ConfigGet

SpecConfig == InitConfig /\ [][NextConfig]_vars

\* the value stored at the path of segments in a configuration: NoneValue
\* when a segment is missing or is reached through a value that is no mapping
RECURSIVE StoredAt(_, _)
StoredAt(value, segments) ==
    IF segments = <<>> THEN value
    ELSE IF value.t # "dict" \/ \A m \in 1..Len(value.d) : value.d[m].k # Head(segments)
    THEN NoneValue
    ELSE StoredAt(value.d[CHOOSE m \in 1..Len(value.d) : value.d[m].k = Head(segments)].v,
                  Tail(segments))

\* the prefixes of a path
Prefixes_of(segments) == {Take(segments, n) : n \in 1..Len(segments)}

\* C23: Config.get(key, default) returns the default when a segment of the
\* key is missing, maps to None or is reached through a value that is no
\* mapping, and the value stored at the path otherwise; it always returns.
C23_ConfigGetDefault ==
    pc = "config_got" =>
        conf.value =
            IF \E p \in Prefixes_of(Split(conf.key, ".")) : StoredAt(conf.config, p) = NoneValue
            THEN conf.default
            ELSE StoredAt(conf.config, Split(conf.key, "."))

\* the value stored at "a.b" was returned, not the default
C23_Witness ==
    /\ pc = "config_got"
    /\ conf.key = <<"a", ".", "b">>
    /\ conf.value = [t |-> "scalar", s |-> "", d |-> <<>>]
    /\ conf.default # conf.value

(***************************************************************************)
(* build_graph and the order of the input pages                            *)
(***************************************************************************)

\* the urls and final_urls of a set of pages
KeysOf(S) == {p.url : p \in S} \cup {p.final_url : p \in S}

\* the edges of a set of pages: from a page's url to each of its links that
\* is the url or the final_url of a page
EdgesOf(S) == UNION {{<<p.url, l>> : l \in Range(p.internal_links) \cap KeysOf(S)} : p \in S}

\* the nodes of a set of pages: the urls and the ends of the edges
NodesOf(S) == {p.url : p \in S} \cup {e[2] : e \in EdgesOf(S)}

\* C24: build_graph has added the node of every input page before it adds
\* an edge, every edge it adds goes to a url or final_url of the dataset, and
\* the node set and the edge set it returns are determined by the set of the
\* input pages, whatever their order.
C24_OrderIndependentGraph ==
    /\ [](G.edges # {} => \A p \in 1..Len(pages) : pages[p].url \in Range(G.nodes))
    /\ [][\A e \in G'.edges \ G.edges : e[2] \in DOMAIN page_map \/ e[2] \in Range(G.nodes)]_vars
    /\ [](pc = "built" =>
            /\ Range(G.nodes) = NodesOf(Range(pages))
            /\ G.edges = EdgesOf(Range(pages)))

\* build_graph has returned for two different pages, the first of which
\* links to the final_url of the second, which is the url of no page
C24_Witness ==
    /\ pc = "built"
    /\ Len(pages) = 2
    /\ pages[1].url # pages[2].url
    /\ <<pages[1].url, pages[2].final_url>> \in G.edges
    /\ \A p \in 1..2 : pages[p].url # pages[2].final_url

(***************************************************************************)
(* Termination of the metrics                                              *)
(***************************************************************************)

\* C25: compute_pagerank and compute_hits end on every graph - with
\* self-loops, dangling nodes or several components - after at most max_iter
\* passes of the iteration, with a score for every node or with the empty
\* result.
C25_MetricsTerminate ==
    /\ <>(pc \in {"pagerank_returned", "pagerank_failed", "hits_returned", "hits_failed",
                  "centrality", "betweenness_failed"})
    /\ [](iteration <= max_iter)
    /\ [](pc \in {"pagerank_returned", "pagerank_failed"} =>
            DOMAIN metric.value \in {{}, Range(G.nodes)})
    /\ [](pc \in {"hits_returned", "hits_failed"} =>
            \/ DOMAIN metric.value[1] = {} /\ DOMAIN metric.value[2] = {}
            \/ DOMAIN metric.value[1] = Range(G.nodes) /\ DOMAIN metric.value[2] = Range(G.nodes))

\* compute_hits has returned scores, after more than one pass, for a graph
\* with a self-loop, a dangling node and a node apart from the others
C25_Witness ==
    /\ pc = "hits_returned"
    /\ iteration > 1
    /\ Len(G.nodes) = 3
    /\ G.edges = {<<(<<"1">>), (<<"1">>)>>, <<(<<"1">>), (<<"2">>)>>}
    /\ DOMAIN metric.value[1] = Range(G.nodes)

(***************************************************************************)
(* URLParser.normalize under every choice of its seven options             *)
(***************************************************************************)

\* the urls normalized under every choice of options: the example,
\* "http://a.com/x/", "http://a.com/x" and "http://a.com/a%23b"
OptionURLs ==
    {ExampleURL, UrlA2, UrlA,
     <<"h", "t", "t", "p", ":", "/", "/", "a", ".", "c", "o", "m", "/", "a", "%", "2", "3", "b">>}

InitOptions ==
    /\ pc = "options"
    /\ tracker_params = {}
    /\ options \in [opt : NormalizeOptions, parsed_url : {parse(u) : u \in OptionURLs},
                    new_url : {None}]
    /\ calls = None
    /\ safe = None
    /\ conf = None
    /\ report = None
    /\ singleton = None
    /\ orch = None
    /\ tree = None
    /\ NoParser
    /\ NoDedup
    /\ NoGraph
    /\ NoMetrics

\* parser.normalize(parsed_url, **options)
Normalize ==
    /\ pc = "options"
    /\ pc' = "normalized"
    /\ options' = [options EXCEPT !.new_url = normalize(options.parsed_url, options.opt)]
    /\ UNCHANGED <<tracker_params, parserVars, dedupVars, graphVars, metricVars,
                   calls, safe, conf, report, singleton, orch, tree>>

NextOptions == Normalize

SpecOptions == InitOptions /\ [][NextOptions]_vars

\* none of the seven options is enabled
AllDisabled(opt) ==
    /\ ~opt.lowercase_hostname
    /\ ~opt.remove_www
    /\ ~opt.remove_trailing_slash
    /\ ~opt.sort_query_params
    /\ ~opt.remove_default_ports
    /\ ~opt.remove_fragments
    /\ ~opt.decode_percent_encoding

\* C26: a disabled option leaves its component as it was - the host, the
\* port and with them the authority, the path, the query, the fragment - and
\* normalize with all seven options disabled returns a ParsedURL that
\* serializes to the string of its input.
C26_DisabledOptionsNoEffect ==
    pc = "normalized" =>
        /\ (~options.opt.lowercase_hostname /\ ~options.opt.remove_www) =>
              options.new_url.hostname = options.parsed_url.hostname
        /\ ~options.opt.remove_default_ports => options.new_url.port = options.parsed_url.port
        /\ (~options.opt.lowercase_hostname /\ ~options.opt.remove_www
                /\ ~options.opt.remove_default_ports) =>
              options.new_url.netloc = options.parsed_url.netloc
        /\ (~options.opt.remove_trailing_slash /\ ~options.opt.decode_percent_encoding) =>
              options.new_url.path = options.parsed_url.path
        /\ ~options.opt.sort_query_params =>
              options.new_url.query_dict = options.parsed_url.query_dict
        /\ ~options.opt.remove_fragments =>
              options.new_url.fragment = options.parsed_url.fragment
        /\ AllDisabled(options.opt) =>
              ParsedURL_str(options.new_url) = ParsedURL_str(options.parsed_url)

(***************************************************************************)
(* LinkGraphAnalyzer.analyze: build_graph, the statistics of the graph,    *)
(* the metrics and the report.  The report is written to files of the      *)
(* output directory, which __init__ has made.                              *)
(***************************************************************************)

\* nx.pagerank(G, alpha) from the scores xlast after k passes of its loop; x
\* is the scores of the next pass
RECURSIVE nx_pagerank(_, _, _, _)
nx_pagerank(g, alpha, xlast, k) ==
    CHOOSE r \in {IF score_err(x, xlast, g.nodes) < Len(g.nodes) * (Scale \div 1000000)
                  THEN [raises |-> FALSE, value |-> x]
                  ELSE IF k + 1 = max_iter THEN [raises |-> TRUE, value |-> None]
                  ELSE nx_pagerank(g, alpha, x, k + 1) :
                      x \in {pagerank_step(g, alpha, xlast)}} : TRUE

\* nx.hits(G) from the hub scores hlast after k passes of its loop; s is the
\* scores of the next pass
RECURSIVE nx_hits(_, _, _)
nx_hits(g, hlast, k) ==
    IF max_value(hits_hub(g, hits_authority(g, hlast)), g.nodes, Len(g.nodes)) = 0
    THEN [raises |-> TRUE, value |-> None]
    ELSE CHOOSE r \in {IF score_err(s.h, hlast, g.nodes) < 1
                       THEN [raises |-> FALSE, value |-> hits_result(g, s)]
                       ELSE IF k + 1 = max_iter THEN [raises |-> TRUE, value |-> None]
                       ELSE nx_hits(g, s.h, k + 1) :
                           s \in {hits_step(g, hlast)}} : TRUE

\* the nodes joined to a node of S by links taken in either direction
RECURSIVE weakly_reachable(_, _)
weakly_reachable(g, S) ==
    IF \A e \in g.edges : (e[1] \in S) = (e[2] \in S) THEN S
    ELSE weakly_reachable(g, S \cup {e[1] : e \in {d \in g.edges : d[2] \in S}}
                               \cup {e[2] : e \in {d \in g.edges : d[1] \in S}})

\* nx.is_weakly_connected(G): NetworkXPointlessConcept for the graph without nodes
is_weakly_connected(g) ==
    IF Len(g.nodes) = 0 THEN [raises |-> TRUE, value |-> FALSE]
    ELSE [raises |-> FALSE, value |-> weakly_reachable(g, {g.nodes[1]}) = Range(g.nodes)]

\* analyze, after build_graph: graph_stats (nx.density is 0 for fewer than two
\* nodes, and a quotient of the two counts otherwise), the sections
\* "pagerank" and "hits" when compute_pagerank and compute_hits returned scores,
\* "centrality" when find_central_pages returned in-degrees, and page_types; a
\* section lists at most ten nodes.  lib is what nx.betweenness_centrality does.
analyze(g, lib) ==
    IF is_weakly_connected(g).raises
    THEN [raises |-> TRUE, keys |-> {}, num_nodes |-> 0, num_edges |-> 0, is_connected |-> FALSE,
          page_types |-> <<>>]
    ELSE [raises |-> FALSE,
          keys   |-> {"graph_stats", "page_types"}
                     \cup (IF DOMAIN compute_pagerank(
                                  IF Len(g.nodes) = 0 THEN [raises |-> FALSE, value |-> <<>>]
                                  ELSE nx_pagerank(g, 17, [n \in Range(g.nodes) |-> Scale \div Len(g.nodes)], 0)
                              ).value # {}
                           THEN {"pagerank"} ELSE {})
                     \cup (IF DOMAIN compute_hits(
                                  IF Len(g.nodes) = 0 THEN [raises |-> FALSE, value |-> <<(<<>>), (<<>>)>>]
                                  ELSE nx_hits(g, [n \in Range(g.nodes) |-> HitsScale \div Len(g.nodes)], 0)
                              ).value[1] # {}
                           THEN {"hits"} ELSE {})
                     \cup (IF DOMAIN find_central_pages(g, lib).in_degree # {}
                           THEN {"centrality"} ELSE {}),
          num_nodes    |-> Len(g.nodes),
          num_edges    |-> Cardinality(g.edges),
          is_connected |-> is_weakly_connected(g).value,
          page_types   |-> page_type_counts(identify_page_types(g))]

\* analyze(pages), after "G = self.build_graph(pages)"
Analyze ==
    /\ pc = "built"
    /\ pc' = "analyzed"
    /\ \E lib \in betweenness_centrality(G) : report' = analyze(G, lib)
    /\ UNCHANGED <<tracker_params, parserVars, dedupVars, graphVars, metricVars,
                   calls, safe, conf, options, singleton, orch, tree>>

NextAnalyze ==
    \/ BuildPageMap
    \/ AddNode
    \/ NodesDone
    \/ AddEdge
    \/ NextPage
    \/ ReturnGraph
    \/ Analyze

SpecAnalyze == InitGraph /\ [][NextAnalyze]_vars

\* C27: analyze returns a report for every list of pages, the empty list
\* included: no exception of the statistics or of the metrics reaches the
\* caller, and a metric without scores only leaves its section out.
C27_AnalyzeAlwaysReports ==
    pc = "analyzed" =>
        /\ ~report.raises
        /\ {"graph_stats", "page_types"} \subseteq report.keys
        /\ report.num_nodes = Len(G.nodes)

(***************************************************************************)
(* src/core/config.py: get_config and the global _config, called from      *)
(* several threads.  A Config is named by the order of its construction,   *)
(* and 0 is None.                                                          *)
(***************************************************************************)

\* the calls of get_config a thread makes
MaxCalls == 2

InitSingleton ==
    /\ pc = "get_config"
    /\ tracker_params = {}
    /\ singleton = [config |-> 0, made |-> 0,
                    pc |-> [t \in 1..MaxThreads |-> "idle"],
                    calls |-> [t \in 1..MaxThreads |-> 0],
                    new |-> [t \in 1..MaxThreads |-> 0],
                    returned |-> [t \in 1..MaxThreads |-> {}]]
    /\ calls = None
    /\ safe = None
    /\ conf = None
    /\ options = None
    /\ report = None
    /\ orch = None
    /\ tree = None
    /\ NoParser
    /\ NoDedup
    /\ NoGraph
    /\ NoMetrics

\* get_config: "if _config is None"
GetConfigTest(t) ==
    /\ pc = "get_config"
    /\ singleton.pc[t] = "idle"
    /\ singleton.calls[t] < MaxCalls
    /\ singleton' = [singleton EXCEPT
                        !.calls[t] = @ + 1,
                        !.pc[t] = IF singleton.config = 0 THEN "construct" ELSE "return"]
    /\ UNCHANGED <<pc, tracker_params, parserVars, dedupVars, graphVars, metricVars,
                   calls, safe, conf, options, report, orch, tree>>

\* get_config: "Config()", the right side of "_config = Config()"
GetConfigConstruct(t) ==
    /\ pc = "get_config"
    /\ singleton.pc[t] = "construct"
    /\ singleton' = [singleton EXCEPT
                        !.made = @ + 1,
                        !.new[t] = singleton.made + 1,
                        !.pc[t] = "assign"]
    /\ UNCHANGED <<pc, tracker_params, parserVars, dedupVars, graphVars, metricVars,
                   calls, safe, conf, options, report, orch, tree>>

\* get_config: "_config = Config()", the new instance stored
GetConfigAssign(t) ==
    /\ pc = "get_config"
    /\ singleton.pc[t] = "assign"
    /\ singleton' = [singleton EXCEPT
                        !.config = singleton.new[t],
                        !.pc[t] = "return"]
    /\ UNCHANGED <<pc, tracker_params, parserVars, dedupVars, graphVars, metricVars,
                   calls, safe, conf, options, report, orch, tree>>

\* get_config: "return _config"
GetConfigReturn(t) ==
    /\ pc = "get_config"
    /\ singleton.pc[t] = "return"
    /\ singleton' = [singleton EXCEPT
                        !.returned[t] = @ \cup {singleton.config},
                        !.pc[t] = "idle"]
    /\ UNCHANGED <<pc, tracker_params, parserVars, dedupVars, graphVars, metricVars,
                   calls, safe, conf, options, report, orch, tree>>

NextSingleton ==
    \E t \in 1..MaxThreads : GetConfigTest(t) \/ GetConfigConstruct(t) \/ GetConfigAssign(t) \/ GetConfigReturn(t)

SpecSingleton == InitSingleton /\ [][NextSingleton]_vars

\* C28: Config is constructed at most once, and every call of get_config,
\* from whatever thread, returns that one instance.
C28_OneConfigInstance ==
    pc = "get_config" =>
        /\ singleton.made <= 1
        /\ \A t \in 1..MaxThreads : singleton.returned[t] \subseteq {1}

(***************************************************************************)
(* src/main.py: URLOrganizerOrchestrator.run_method and run_all_methods    *)
(***************************************************************************)

\* the registered methods of a run
MaxMethods == 3

\* the first keys of self.methods, in the order of the registry
MethodNames ==
    <<"method_01_by_domain", "method_02_by_depth", "method_03_by_subdomain",
      "method_04_by_path_structure", "method_05_by_query_params">>

\* what a method does: its constructor raises, its run raises, or it completes
MethodOutcomes == {"constructor_raises", "run_raises", "completes"}

\* run_method without its except clause
run_method_uncaught(methods, method_name, outcome) ==
    IF method_name \notin Range(methods) THEN [raises |-> FALSE, value |-> FALSE]
    ELSE [raises |-> outcome # "completes", value |-> TRUE]

\* run_method: False for an unknown method and for a method whose constructor
\* or run raises an Exception, else True
run_method(methods, method_name, outcome) ==
    IF method_name \notin Range(methods) THEN [raises |-> FALSE, value |-> FALSE]
    ELSE [raises |-> FALSE, value |-> outcome = "completes"]

InitOrchestrator ==
    /\ pc = "run_all_methods"
    /\ tracker_params = {}
    /\ orch \in [methods : {SubSeq(MethodNames, 1, MaxMethods)},
                 outcome : [1..MaxMethods -> MethodOutcomes],
                 i : {1},
                 run : {<<>>},
                 results : {<<>>}]
    /\ calls = None
    /\ safe = None
    /\ conf = None
    /\ options = None
    /\ report = None
    /\ singleton = None
    /\ tree = None
    /\ NoParser
    /\ NoDedup
    /\ NoGraph
    /\ NoMetrics

\* run_all_methods, one pass of "for method_name in self.methods.keys()"
RunMethod ==
    /\ pc = "run_all_methods"
    /\ orch.i <= Len(orch.methods)
    /\ IF run_method(orch.methods, orch.methods[orch.i], orch.outcome[orch.i]).raises
       THEN /\ pc' = "run_all_methods_raised"
            /\ orch' = [orch EXCEPT !.run = Append(@, orch.methods[orch.i])]
       ELSE /\ pc' = pc
            /\ orch' = [orch EXCEPT
                           !.run = Append(@, orch.methods[orch.i]),
                           !.results = Append(@,
                               [k |-> orch.methods[orch.i],
                                v |-> IF run_method(orch.methods, orch.methods[orch.i],
                                                    orch.outcome[orch.i]).value
                                      THEN "success" ELSE "failed"]),
                           !.i = @ + 1]
    /\ UNCHANGED <<tracker_params, parserVars, dedupVars, graphVars, metricVars,
                   calls, safe, conf, options, report, singleton, tree>>

\* run_all_methods: the loop is over, the counts are printed
RunAllDone ==
    /\ pc = "run_all_methods"
    /\ orch.i > Len(orch.methods)
    /\ pc' = "run_all_methods_returned"
    /\ UNCHANGED <<tracker_params, parserVars, dedupVars, graphVars, metricVars, systemVars>>

NextOrchestrator == RunMethod \/ RunAllDone

SpecOrchestrator == InitOrchestrator /\ [][NextOrchestrator]_vars

\* C29: run_all_methods runs every registered method once, in the order of
\* the registry; a method whose constructor or run raises is recorded as
\* 'failed' and the methods after it are still run, so that when
\* run_all_methods returns the results hold one entry for each method.
C29_EveryMethodAttempted ==
    /\ pc \in {"run_all_methods", "run_all_methods_returned"}
    /\ orch.run = SubSeq(orch.methods, 1, orch.i - 1)
    /\ Len(orch.results) = Len(orch.run)
    /\ \A m \in 1..Len(orch.results) :
          /\ orch.results[m].k = orch.methods[m]
          /\ orch.results[m].v = IF orch.outcome[m] = "completes" THEN "success" ELSE "failed"
    /\ pc = "run_all_methods_returned" => Len(orch.results) = Len(orch.methods)

\* run_all_methods has returned after the constructor of the first method
\* and the run of the second raised, and the last method completed
C29_Witness ==
    /\ pc = "run_all_methods_returned"
    /\ orch.outcome[1] = "constructor_raises"
    /\ orch.outcome[2] = "run_raises"
    /\ orch.outcome[MaxMethods] = "completes"
    /\ orch.results[MaxMethods].v = "success"

(***************************************************************************)
(* src/organizers/method_13_hierarchical_tree.py: build_tree.  A record    *)
(* is its url and its parent_url ("" when absent); a node is its url and   *)
(* its children.                                                           *)
(***************************************************************************)

\* the longest list of records given to build_tree
MaxTreeRecords == 3

\* the depth of calls at which Python raises RecursionError
RecursionLimit == 5

TreeRecords == [url : {"a", "b"}, parent_url : {"", "a", "b"}]

\* build_tree: the keys of url_map
url_map_keys(rs) == {rs[m].url : m \in 1..Len(rs)}

\* build_tree: "record.parent_url and record.parent_url in url_map"
has_parent(rs, record) == record.parent_url # "" /\ record.parent_url \in url_map_keys(rs)

\* build_tree: children_map[url], the urls of the records whose parent is url,
\* in the order of the records
children_of(rs, u) ==
    [m \in 1..Len(SelectSeq(rs, LAMBDA r : has_parent(rs, r) /\ r.parent_url = u)) |->
        SelectSeq(rs, LAMBDA r : has_parent(rs, r) /\ r.parent_url = u)[m].url]

\* build_tree: root_urls, the urls of the records without a parent among the records
root_urls_of(rs) ==
    [m \in 1..Len(SelectSeq(rs, LAMBDA r : ~has_parent(rs, r))) |->
        SelectSeq(rs, LAMBDA r : ~has_parent(rs, r))[m].url]

InitTree ==
    /\ pc = "build_tree"
    /\ tracker_params = {}
    /\ tree \in [records : ListsOf(TreeRecords, MaxTreeRecords),
                 root_urls : {<<>>},
                 root_i : {1},
                 stack : {<<>>},
                 roots : {<<>>}]
    /\ calls = None
    /\ safe = None
    /\ conf = None
    /\ options = None
    /\ report = None
    /\ singleton = None
    /\ orch = None
    /\ NoParser
    /\ NoDedup
    /\ NoGraph
    /\ NoMetrics

\* build_tree: url_map, children_map and root_urls
BuildMaps ==
    /\ pc = "build_tree"
    /\ pc' = "build_roots"
    /\ tree' = [tree EXCEPT !.root_urls = root_urls_of(tree.records)]
    /\ UNCHANGED <<tracker_params, parserVars, dedupVars, graphVars, metricVars,
                   calls, safe, conf, options, report, singleton, orch>>

\* build_tree: build_node(url) is called for the next of root_urls
BuildNodeRoot ==
    /\ pc = "build_roots"
    /\ tree.stack = <<>>
    /\ tree.root_i <= Len(tree.root_urls)
    /\ tree' = [tree EXCEPT
                   !.stack = <<[url |-> tree.root_urls[tree.root_i], child_i |-> 1, children |-> <<>>]>>]
    /\ UNCHANGED <<pc, tracker_params, parserVars, dedupVars, graphVars, metricVars,
                   calls, safe, conf, options, report, singleton, orch>>

\* build_node: build_node(child_url) is called for the next child, and
\* RecursionError is raised at the limit of the depth of calls
BuildNodeChild ==
    /\ pc = "build_roots"
    /\ tree.stack # <<>>
    /\ tree.stack[Len(tree.stack)].child_i
          <= Len(children_of(tree.records, tree.stack[Len(tree.stack)].url))
    /\ IF Len(tree.stack) = RecursionLimit
       THEN /\ pc' = "recursion_error"
            /\ tree' = tree
       ELSE /\ pc' = pc
            /\ tree' = [tree EXCEPT
                           !.stack = Append(@,
                               [url |-> children_of(tree.records, tree.stack[Len(tree.stack)].url)
                                            [tree.stack[Len(tree.stack)].child_i],
                                child_i |-> 1, children |-> <<>>])]
    /\ UNCHANGED <<tracker_params, parserVars, dedupVars, graphVars, metricVars,
                   calls, safe, conf, options, report, singleton, orch>>

\* build_node: "return node", appended to the children of the caller's node or
\* to the roots
BuildNodeReturn ==
    /\ pc = "build_roots"
    /\ tree.stack # <<>>
    /\ tree.stack[Len(tree.stack)].child_i
          > Len(children_of(tree.records, tree.stack[Len(tree.stack)].url))
    /\ IF Len(tree.stack) = 1
       THEN tree' = [tree EXCEPT
                        !.stack = <<>>,
                        !.roots = Append(@, [url |-> tree.stack[1].url,
                                             children |-> tree.stack[1].children]),
                        !.root_i = @ + 1]
       ELSE tree' = [tree EXCEPT
                        !.stack = [SubSeq(tree.stack, 1, Len(tree.stack) - 1) EXCEPT
                                      ![Len(tree.stack) - 1].children =
                                          Append(@, [url |-> tree.stack[Len(tree.stack)].url,
                                                     children |-> tree.stack[Len(tree.stack)].children]),
                                      ![Len(tree.stack) - 1].child_i = @ + 1]]
    /\ UNCHANGED <<pc, tracker_params, parserVars, dedupVars, graphVars, metricVars,
                   calls, safe, conf, options, report, singleton, orch>>

\* build_tree: "return tree"
ReturnTree ==
    /\ pc = "build_roots"
    /\ tree.stack = <<>>
    /\ tree.root_i > Len(tree.root_urls)
    /\ pc' = "tree_built"
    /\ UNCHANGED <<tracker_params, parserVars, dedupVars, graphVars, metricVars, systemVars>>

NextTree ==
    \/ BuildMaps
    \/ BuildNodeRoot
    \/ BuildNodeChild
    \/ BuildNodeReturn
    \/ ReturnTree

\* a call of build_tree that can go on does go on
SpecTree == InitTree /\ [][NextTree]_vars /\ WF_vars(NextTree)

\* C30: build_tree returns its tree for every list of records: a record that
\* is its own parent, records whose parents form a cycle and records that
\* share a url included.
C30_BuildTreeTerminates == <>(pc = "tree_built")
====
